---- MODULE Spec2Model ----
(***************************************************************************)
(* Lot-based position accounting of trading-core: one currency account     *)
(* with its long and short symbol maps, the trade accounting functions,    *)
(* the corporate / chain actions and the fill applicator.  The account is  *)
(* a Position (position, crypto, fill and order utilities) or a Portfolio  *)
(* of one currency (portfolio and stock utilities).                        *)
(*                                                                         *)
(* Numbers are JavaScript numbers in the source and IEEE-754 doubles here; *)
(* a field that was never assigned is Undefined.                           *)
(* Timestamps are the ordinal of the call that wrote them.                 *)
(***************************************************************************)
EXTENDS Integers, Sequences, FiniteSets, TLC

VARIABLES pos, last, steps, accepted, account

vars == <<pos, last, steps, accepted, account>>

(***************************************************************************)
(* Bounds of the exploration.                                              *)
(***************************************************************************)
MaxSteps == 3
\* orders a caller keeps accepted and not yet filled
MaxWorking == 2

(***************************************************************************)
(* Arithmetic of the source's number type: IEEE-754 binary64.  Every       *)
(* operation gives the double nearest to the exact result, ties to even,   *)
(* with subnormal numbers, overflow to the infinities, the two zeros and   *)
(* NaN; Undefined, which is not a number, becomes NaN when it enters an    *)
(* operation.                                                              *)
(***************************************************************************)
Max(i, j) == IF i < j THEN j ELSE i
Min(i, j) == IF i < j THEN i ELSE j

(***************************************************************************)
(* Natural numbers of any size, as the tuple of their limbs in base 2^14,  *)
(* least significant first and without leading zeros: TLC's integers have  *)
(* 32 bits, the mantissa of a number 53.                                   *)
(***************************************************************************)
LimbBits == 2 * 7
Base == 2^LimbBits
Limb(a, i) == IF i <= Len(a) THEN a[i] ELSE 0

RECURSIVE BStrip(_)
BStrip(a) == IF Len(a) > 0 /\ a[Len(a)] = 0 THEN BStrip(SubSeq(a, 1, Len(a) - 1)) ELSE a

RECURSIVE BCarry(_, _, _)
BCarry(cols, i, c) ==
  IF i > Len(cols)
  THEN IF c = 0 THEN <<>> ELSE <<c % Base>> \o BCarry(cols, i, c \div Base)
  ELSE LET v == cols[i] + c IN <<v % Base>> \o BCarry(cols, i + 1, v \div Base)

BAdd(a, b) == BCarry([i \in 1..Max(Len(a), Len(b)) |-> Limb(a, i) + Limb(b, i)], 1, 0)

RECURSIVE BBorrow(_, _, _, _)
BBorrow(a, b, i, c) ==
  IF i > Len(a) THEN <<>>
  ELSE LET v == a[i] - Limb(b, i) - c
       IN IF v < 0 THEN <<v + Base>> \o BBorrow(a, b, i + 1, 1)
          ELSE <<v>> \o BBorrow(a, b, i + 1, 0)
BSub(a, b) == BStrip(BBorrow(a, b, 1, 0))

RECURSIVE BCmpAt(_, _, _)
BCmpAt(a, b, i) ==
  IF i = 0 THEN 0
  ELSE IF a[i] < b[i] THEN -1 ELSE IF a[i] > b[i] THEN 1 ELSE BCmpAt(a, b, i - 1)
BCmp(a, b) ==
  IF Len(a) < Len(b) THEN -1 ELSE IF Len(a) > Len(b) THEN 1 ELSE BCmpAt(a, b, Len(a))

RECURSIVE BCol(_, _, _, _)
BCol(a, b, k, i) ==
  IF i > Len(a) \/ i > k THEN 0
  ELSE (IF k + 1 - i <= Len(b) THEN a[i] * b[k + 1 - i] ELSE 0) + BCol(a, b, k, i + 1)
BMul(a, b) ==
  IF Len(a) = 0 \/ Len(b) = 0 THEN <<>>
  ELSE BStrip(BCarry([k \in 1..(Len(a) + Len(b) - 1) |-> BCol(a, b, k, 1)], 1, 0))

BShl(a, n) ==
  IF Len(a) = 0 THEN <<>>
  ELSE LET q == n \div LimbBits
           r == n % LimbBits
       IN [i \in 1..q |-> 0] \o BStrip(BCarry([i \in 1..Len(a) |-> a[i] * 2^r], 1, 0))

BShr(a, n) ==
  LET q == n \div LimbBits
      r == n % LimbBits
      len == Len(a) - q
  IN IF len <= 0 THEN <<>>
     ELSE BStrip([i \in 1..len |->
                    (a[q + i] \div 2^r) + (Limb(a, q + i + 1) % 2^r) * 2^(LimbBits - r)])

BLow(a, n) ==
  LET q == n \div LimbBits
      r == n % LimbBits
  IN IF Len(a) <= q THEN a
     ELSE BStrip([i \in 1..(q + 1) |-> IF i <= q THEN a[i] ELSE a[i] % 2^r])

RECURSIVE IBitLen(_)
IBitLen(x) == IF x = 0 THEN 0 ELSE 1 + IBitLen(x \div 2)
BBitLen(a) == IF Len(a) = 0 THEN 0 ELSE LimbBits * (Len(a) - 1) + IBitLen(a[Len(a)])

RECURSIVE ITz(_)
ITz(x) == IF x % 2 = 1 THEN 0 ELSE 1 + ITz(x \div 2)
RECURSIVE BTzAt(_, _)
BTzAt(a, i) == IF a[i] = 0 THEN LimbBits + BTzAt(a, i + 1) ELSE ITz(a[i])
BTz(a) == BTzAt(a, 1)

BOdd(a) == Len(a) > 0 /\ a[1] % 2 = 1

BDivSmallStep(rest, digit) == [q |-> Append(rest.q, digit), r |-> rest.r]
RECURSIVE BDivSmallAt(_, _, _, _)
BDivSmallAt(a, d, i, rem) ==
  IF i = 0 THEN [q |-> <<>>, r |-> rem]
  ELSE BDivSmallStep(BDivSmallAt(a, d, i - 1, (rem * Base + a[i]) % d),
                     (rem * Base + a[i]) \div d)

RECURSIVE BFix(_, _, _)
\* the largest d <= q with b * d <= cur
BFix(cur, b, q) == IF BCmp(BMul(b, <<q>>), cur) <= 0 THEN q ELSE BFix(cur, b, q - 1)

\* the quotient digit of cur by b, cur < b * Base and the top limb of b at least Base / 2:
\* the estimate from the top limbs is at most 2 too large
BDigit(cur, b) ==
  IF BCmp(cur, b) < 0 THEN 0
  ELSE BFix(cur, b, Min(Base - 1,
                        (Limb(cur, Len(b) + 1) * Base + cur[Len(b)]) \div b[Len(b)]))

RECURSIVE BDivFrom(_, _, _, _, _)
\* the digit d of cur by b goes before the quotient q, what is left of cur goes on
BDivTake(a, b, i, q, cur, d) ==
  IF d = 0 THEN BDivFrom(a, b, i - 1, <<0>> \o q, cur)
  ELSE BDivFrom(a, b, i - 1, <<d>> \o q, BSub(cur, BMul(b, <<d>>)))
BDivLimb(a, b, i, q, cur) == BDivTake(a, b, i, q, cur, BDigit(cur, b))
\* long division: the limbs i..1 of a still to bring down, q and r the quotient and the
\* remainder of the limbs above them by b
BDivFrom(a, b, i, q, r) ==
  IF i = 0 THEN [q |-> q, r |-> r]
  ELSE BDivLimb(a, b, i, q, BStrip(<<a[i]>> \o r))

BDivSmall(d) == [q |-> BStrip(d.q), inexact |-> d.r # 0]
BDivNormal(d) == [q |-> BStrip(d.q), inexact |-> Len(d.r) > 0]
BDivShifted(a, b) == BDivNormal(BDivFrom(a, b, Len(a), <<>>, <<>>))
\* quotient and whether the remainder is not zero
BDiv(a, b) ==
  IF Len(b) = 1
  THEN BDivSmall(BDivSmallAt(a, b[1], Len(a), 0))
  ELSE BDivShifted(BShl(a, LimbBits - IBitLen(b[Len(b)])), BShl(b, LimbBits - IBitLen(b[Len(b)])))

\* bit n of a, counted from 0
BBit(a, n) == (Limb(a, n \div LimbBits + 1) \div 2^(n % LimbBits)) % 2 = 1

IntLimbs(n) == IF n < Base THEN <<n>> ELSE BCarry(<<n>>, 1, 0)

(***************************************************************************)
(* Numbers.  A finite number is (-1)^s * m * 2^e with m odd (m = <<>>,     *)
(* e = 0 for the two zeros), so that equal numbers are equal records.      *)
(***************************************************************************)
NaN == [k |-> "nan", s |-> 0, m |-> <<>>, e |-> 0]
Undefined == [k |-> "undefined", s |-> 0, m |-> <<>>, e |-> 0]
FInf(s) == [k |-> "inf", s |-> s, m |-> <<>>, e |-> 0]
FZero(s) == [k |-> "num", s |-> s, m |-> <<>>, e |-> 0]
Infinity == FInf(0)
NegInfinity == FInf(1)

CanonAt(s, M, e, tz) == [k |-> "num", s |-> s, m |-> BShr(M, tz), e |-> e + tz]
Canon(s, M, e) == CanonAt(s, M, e, BTz(M))

\* 52 stored bits and the leading one
Precision == 52 + 1
\* the exponent of the last bit of a subnormal number
MinExp == -(1022 + 52)
\* numbers are below 2^1024
MaxTop == 1023 + 1

\* q, or the next integer when the dropped bits are more than half (half and rest), or
\* exactly half (half alone) with more below them or with q odd: ties to even
RoundUp(q, half, rest, sticky) ==
  IF half /\ (rest \/ sticky \/ BOdd(q)) THEN BAdd(q, <<1>>) ELSE q

RoundEnd(s, q, e) ==
  IF Len(q) = 0 THEN FZero(s)
  ELSE IF BBitLen(q) + e > MaxTop THEN FInf(s)
  ELSE Canon(s, q, e)

\* drop: the low bits of M that the result has no room for
RoundAt(s, M, e, sticky, drop) ==
  RoundEnd(s,
           RoundUp(BShr(M, drop),
                   drop > 0 /\ BBit(M, drop - 1),
                   drop > 1 /\ Len(BLow(M, drop - 1)) > 0,
                   sticky),
           e + drop)

\* the double nearest to (-1)^s * (M + f) * 2^e, 0 <= f < 1 and f > 0 iff sticky; ties to even
Round(s, M, e, sticky) ==
  IF Len(M) = 0 THEN FZero(s)
  ELSE RoundAt(s, M, e, sticky, Max(Max(BBitLen(M) - Precision, MinExp - e), 0))

FromIntAt(s, v, e, tz) == [k |-> "num", s |-> s, m |-> IntLimbs(v \div 2^tz), e |-> e + tz]
\* (-1)^s * v * 2^e for an integer v > 0 that needs no rounding
FromInt(s, v, e) == FromIntAt(s, v, e, ITz(v))

R(i) == IF i = 0 THEN FZero(0) ELSE FromInt(IF i < 0 THEN 1 ELSE 0, IF i < 0 THEN -i ELSE i, 0)
Zero == FZero(0)
One == [k |-> "num", s |-> 0, m |-> <<1>>, e |-> 0]

ToNumber(a) == IF a = Undefined THEN NaN ELSE a
IsZero(x) == x.k = "num" /\ Len(x.m) = 0
Xor(s, t) == IF s = t THEN 0 ELSE 1
Top(x) == x.e + BBitLen(x.m)
\* an operand this many bits below the last bit of the other only makes the sum inexact
Gap == Precision + 7
\* both of one limb and near enough for machine integers
Near(x, y) == Len(x.m) = 1 /\ Len(y.m) = 1 /\ x.e - y.e \in -LimbBits..LimbBits

CmpInt(a, b) == IF a < b THEN -1 ELSE IF a > b THEN 1 ELSE 0
CmpWide(x, y, tx, ty, lo) ==
  IF tx # ty THEN CmpInt(tx, ty) ELSE BCmp(BShl(x.m, x.e - lo), BShl(y.m, y.e - lo))

\* -1, 0, 1: |x| against |y|, both finite and not zero
CmpMag(x, y) ==
  IF Near(x, y)
  THEN CmpInt(x.m[1] * 2^(x.e - Min(x.e, y.e)), y.m[1] * 2^(y.e - Min(x.e, y.e)))
  ELSE CmpWide(x, y, Top(x), Top(y), Min(x.e, y.e))

\* (a + b) * 2^lo with the sign of x (signs equal), or the difference with the sign of the
\* larger (c: a against b), rounded
AddLimbs(x, y, a, b, lo, c, sticky) ==
  IF x.s # y.s /\ c = 0 THEN FZero(0)
  ELSE Round(IF c >= 0 THEN x.s ELSE y.s,
             IF x.s = y.s THEN BAdd(a, b) ELSE IF c > 0 THEN BSub(a, b) ELSE BSub(b, a),
             lo, sticky)

AddInts(x, y, a, b, lo) ==
  IF x.s = y.s THEN FromInt(x.s, a + b, lo)
  ELSE IF a = b THEN FZero(0)
  ELSE FromInt(IF a > b THEN x.s ELSE y.s, IF a > b THEN a - b ELSE b - a, lo)

\* far 1: y lies wholly below the last bit kept of x, which it only nudges; far 2: x below y
AddShifted(x, y, a, b, lo, far) ==
  AddLimbs(x, y, a, b, lo,
           IF x.s = y.s \/ far = 1 THEN 1 ELSE IF far = 2 THEN -1 ELSE BCmp(a, b),
           far # 0)

Nudge(x, y) == IF x.s = y.s THEN <<>> ELSE <<1>>

AddWide(x, y, lo, far) ==
  AddShifted(x, y,
             IF far = 2 THEN Nudge(x, y) ELSE BShl(x.m, IF far = 1 THEN Gap ELSE x.e - lo),
             IF far = 1 THEN Nudge(x, y) ELSE BShl(y.m, IF far = 2 THEN Gap ELSE y.e - lo),
             IF far = 1 THEN x.e - Gap ELSE IF far = 2 THEN y.e - Gap ELSE lo,
             far)

AddFar(x, y, lo, tx, ty) ==
  AddWide(x, y, lo, IF ty <= x.e - Gap THEN 1 ELSE IF tx <= y.e - Gap THEN 2 ELSE 0)

\* x + y, both finite and not zero; lo: the exponent of the last bit of either
AddAt(x, y, lo) ==
  IF Near(x, y) /\ lo + 3 * LimbBits < MaxTop
  THEN AddInts(x, y, x.m[1] * 2^(x.e - lo), y.m[1] * 2^(y.e - lo), lo)
  ELSE AddFar(x, y, lo, Top(x), Top(y))

RNeg(a) == IF ToNumber(a) = NaN THEN NaN ELSE [a EXCEPT !.s = 1 - @]

AddNumbers(x, y) ==
  IF x = NaN \/ y = NaN THEN NaN
  ELSE IF x.k = "inf" THEN (IF y.k = "inf" /\ y.s # x.s THEN NaN ELSE x)
  ELSE IF y.k = "inf" THEN y
  ELSE IF IsZero(x) THEN (IF IsZero(y) THEN FZero(IF x.s = 1 /\ y.s = 1 THEN 1 ELSE 0) ELSE y)
  ELSE IF IsZero(y) THEN x
  ELSE AddAt(x, y, Min(x.e, y.e))

RAdd(a, b) == AddNumbers(ToNumber(a), ToNumber(b))

RSub(a, b) == RAdd(a, RNeg(b))

MulNumbers(x, y, s) ==
  IF x = NaN \/ y = NaN THEN NaN
  ELSE IF x.k = "inf" \/ y.k = "inf"
  THEN (IF IsZero(x) \/ IsZero(y) THEN NaN ELSE FInf(s))
  ELSE IF IsZero(x) \/ IsZero(y) THEN FZero(s)
  ELSE IF /\ Len(x.m) = 1 /\ Len(y.m) = 1
          /\ x.e + y.e >= MinExp /\ x.e + y.e + 2 * LimbBits <= MaxTop
  THEN [k |-> "num", s |-> s, m |-> IntLimbs(x.m[1] * y.m[1]), e |-> x.e + y.e]
  ELSE Round(s, BMul(x.m, y.m), x.e + y.e, FALSE)

RMul(a, b) == MulNumbers(ToNumber(a), ToNumber(b), Xor(ToNumber(a).s, ToNumber(b).s))

DivRound(s, d, e) == Round(s, d.q, e, d.inexact)
\* t: the shift of the dividend that leaves the quotient enough bits to round
DivWide(x, y, s, t) == DivRound(s, BDiv(BShl(x.m, t), y.m), x.e - y.e - t)

DivNumbers(x, y, s) ==
  IF x = NaN \/ y = NaN THEN NaN
  ELSE IF x.k = "inf" THEN (IF y.k = "inf" THEN NaN ELSE FInf(s))
  ELSE IF y.k = "inf" THEN FZero(s)
  ELSE IF IsZero(y) THEN (IF IsZero(x) THEN NaN ELSE FInf(s))
  ELSE IF IsZero(x) THEN FZero(s)
  ELSE IF /\ Len(x.m) = 1 /\ Len(y.m) = 1 /\ x.m[1] % y.m[1] = 0
          /\ x.e - y.e >= MinExp /\ x.e - y.e + LimbBits <= MaxTop
  THEN [k |-> "num", s |-> s, m |-> <<x.m[1] \div y.m[1]>>, e |-> x.e - y.e]
  ELSE DivWide(x, y, s, Max(0, Precision + 3 + BBitLen(y.m) - BBitLen(x.m)))

RDiv(a, b) == DivNumbers(ToNumber(a), ToNumber(b), Xor(ToNumber(a).s, ToNumber(b).s))

Q(i, j) == RDiv(R(i), R(j))

Sign(x) == IF x.s = 1 THEN -1 ELSE 1

\* -1, 0, 1 for numbers other than NaN
FCmp(x, y) ==
  IF IsZero(x) /\ IsZero(y) THEN 0
  ELSE IF x.k = "inf" /\ y.k = "inf" THEN (IF x.s = y.s THEN 0 ELSE Sign(x))
  ELSE IF x.k = "inf" THEN Sign(x)
  ELSE IF y.k = "inf" THEN -Sign(y)
  ELSE IF IsZero(x) THEN -Sign(y)
  ELSE IF IsZero(y) THEN Sign(x)
  ELSE IF x.s # y.s THEN Sign(x)
  ELSE Sign(x) * CmpMag(x, y)

Ordered(a) == a.k \in {"num", "inf"}
RLt(a, b) == Ordered(a) /\ Ordered(b) /\ FCmp(a, b) < 0
RLe(a, b) == Ordered(a) /\ Ordered(b) /\ FCmp(a, b) <= 0
StrictEq(a, b) == Ordered(a) /\ Ordered(b) /\ FCmp(a, b) = 0
MinNumbers(x, y) ==
  IF x = NaN \/ y = NaN THEN NaN
  ELSE IF IsZero(x) /\ IsZero(y) THEN FZero(IF x.s = 1 \/ y.s = 1 THEN 1 ELSE 0)
  ELSE IF RLt(y, x) THEN y ELSE x
RMin(a, b) == MinNumbers(ToNumber(a), ToNumber(b))

RECURSIVE SumSeq(_)
\* reduce((sum, x) => sum + x, 0): added left to right from 0
SumSeq(s) == IF s = <<>> THEN Zero ELSE RAdd(SumSeq(SubSeq(s, 1, Len(s) - 1)), s[Len(s)])

(***************************************************************************)
(* Input domains.                                                          *)
(***************************************************************************)
Symbols == {"A", "B"}
Strategies == {"FIFO", "LIFO"}
\* <<price, quantity, commission>> of a trade
Trades == {<<2, 1, 0>>, <<3, 2, 1>>}
StartCash == R(100)

(***************************************************************************)
(* Position (types/position.ts).  A Map is a function whose DOMAIN is the  *)
(* set of keys present.                                                    *)
(***************************************************************************)
EmptyMap == [s \in {} |-> 0]

MapSet(m, k, v) == [s \in (DOMAIN m) \cup {k} |-> IF s = k THEN v ELSE m[s]]
MapDelete(m, k) == [s \in (DOMAIN m) \ {k} |-> m[s]]
MapHas(m, k) == k \in DOMAIN m

LongPositionLot(id, quantity, price, totalCost) ==
  [id |-> id, quantity |-> quantity, price |-> price, totalCost |-> totalCost]

ShortPositionLot(id, quantity, price, totalProceeds) ==
  [id |-> id, quantity |-> quantity, price |-> price, totalProceeds |-> totalProceeds]

\* otherCash: the entries of a Portfolio's cash map in the currencies other than the one
\* its assets are quoted in; a Position has none
createTestPosition(cash) ==
  [cash |-> cash, otherCash |-> EmptyMap, long |-> EmptyMap, short |-> EmptyMap,
   totalCommission |-> Zero, realisedPnL |-> Zero, modified |-> 0]

\* A fresh Portfolio: its cash map holds the starting cash in the assets' currency, its
\* totalCommission and realisedPnL maps hold no entry
createTestPortfolio(cashAmount) ==
  [cash |-> cashAmount, otherCash |-> EmptyMap, long |-> EmptyMap, short |-> EmptyMap,
   totalCommission |-> Undefined, realisedPnL |-> Undefined, modified |-> 0]

\* map.get(currency) ?? 0 of an entry of the Portfolio's cash, totalCommission or
\* realisedPnL map
orZero(entry) == IF entry = Undefined THEN Zero ELSE entry

(***************************************************************************)
(* Trade accounting engine (position.utils.ts).                            *)
(* Every function returns [pos, ret, threw]: the Position after the call,  *)
(* the value returned, and whether the call threw.                         *)
(***************************************************************************)
Returned(p, r) == [pos |-> p, ret |-> r, threw |-> FALSE]
Thrown(p) == [pos |-> p, ret |-> Undefined, threw |-> TRUE]

openLongCost_noComm(price, quant, comm) == RMul(price, quant)

openLongCost(price, quant, comm) == RAdd(RMul(price, quant), comm)

openLongEntry_resetPnL(assetPos, lot, quant, cost) ==
  [quantity |-> RAdd(assetPos.quantity, quant),
   totalCost |-> RAdd(assetPos.totalCost, cost),
   averageCost |-> RDiv(RAdd(assetPos.totalCost, cost), RAdd(assetPos.quantity, quant)),
   realisedPnL |-> Zero,
   lots |-> Append(assetPos.lots, lot)]

\* the entry of a symbol already held, after one more lot
openLongEntry(assetPos, lot, quant, cost) ==
  LET entry(quantity, totalCost) ==
        [quantity |-> quantity,
         totalCost |-> totalCost,
         averageCost |-> RDiv(totalCost, quantity),
         realisedPnL |-> assetPos.realisedPnL,
         lots |-> Append(assetPos.lots, lot)]
  IN entry(RAdd(assetPos.quantity, quant), RAdd(assetPos.totalCost, cost))

openLong(p, symbol, price, quant, comm, time, id) ==
  LET assetPos(cost, lot) ==
        IF ~MapHas(p.long, symbol)
        THEN [quantity |-> quant, totalCost |-> cost, averageCost |-> RDiv(cost, quant),
              realisedPnL |-> Zero, lots |-> <<lot>>]
        ELSE openLongEntry(p.long[symbol], lot, quant, cost)
      bought(cost) ==
        Returned([p EXCEPT !.cash = RSub(@, cost),
                           !.long = MapSet(@, symbol,
                                      assetPos(cost, LongPositionLot(id, quant, price, cost))),
                           !.totalCommission = RAdd(@, comm),
                           !.modified = time],
                 RNeg(cost))
  IN bought(openLongCost(price, quant, comm))

closeOrder_fifoOnly(strat, n) == [i \in 1..n |-> i]

closeOrder_lifoOnly(strat, n) == [i \in 1..n |-> n + 1 - i]

closeOrder_reversed(strat, n) ==
  IF strat = "FIFO" THEN [i \in 1..n |-> n + 1 - i] ELSE [i \in 1..n |-> i]

\* the order in which the close loop visits the lot indices
closeOrder(strat, n) ==
  IF strat = "FIFO" THEN [i \in 1..n |-> i] ELSE [i \in 1..n |-> n + 1 - i]

lotCostOf_price(lot, closeQty) == RMul(lot.price, closeQty)

\* cost taken out of a lot by closing closeQty of it
lotCostOf(lot, closeQty) ==
  IF StrictEq(closeQty, lot.quantity) THEN lot.totalCost
  ELSE RMul(RDiv(lot.totalCost, lot.quantity), closeQty)

RECURSIVE closeLongLoop_wholeLots(_, _, _, _)
closeLongLoop_wholeLots(lots, order, remainingQty, totalCost) ==
  IF order = <<>> \/ RLe(remainingQty, Zero)
  THEN [lots |-> lots, remainingQty |-> remainingQty, totalCost |-> totalCost]
  ELSE LET i == Head(order)
           lot == lots[i]
       IN closeLongLoop_wholeLots(
            [lots EXCEPT ![i] = [@ EXCEPT !.quantity = Zero, !.totalCost = Zero]],
            Tail(order), RSub(remainingQty, lot.quantity), RAdd(totalCost, lot.totalCost))

RECURSIVE closeLongLoop(_, _, _, _)
closeLongLoop(lots, order, remainingQty, totalCost) ==
  IF order = <<>> \/ RLe(remainingQty, Zero)
  THEN [lots |-> lots, remainingQty |-> remainingQty, totalCost |-> totalCost]
  ELSE LET taken(i, closeQty, lotCost) ==
             closeLongLoop(
               [lots EXCEPT ![i] = [@ EXCEPT !.quantity = RSub(@, closeQty),
                                             !.totalCost = RSub(@, lotCost)]],
               Tail(order), RSub(remainingQty, closeQty), RAdd(totalCost, lotCost))
           closing(i, closeQty) == taken(i, closeQty, lotCostOf(lots[i], closeQty))
       IN closing(Head(order), RMin(lots[Head(order)].quantity, remainingQty))

RECURSIVE Reverse(_)
Reverse(s) == IF s = <<>> THEN <<>> ELSE Append(Reverse(Tail(s)), Head(s))

removeEmptyLots_reversed(lots) == Reverse(SelectSeq(lots, LAMBDA l : RLt(Zero, l.quantity)))

removeEmptyLots(lots) == SelectSeq(lots, LAMBDA l : RLt(Zero, l.quantity))

\* the symbol's long position after the loop: aggregates reduced, emptied lots dropped
closeLongEntry(assetPos, lots, quant, totalCost, realisedPnL) ==
  LET entry(quantity, total) ==
        [quantity |-> quantity,
         totalCost |-> total,
         averageCost |-> IF RLt(Zero, quantity) THEN RDiv(total, quantity) ELSE Zero,
         realisedPnL |-> RAdd(assetPos.realisedPnL, realisedPnL),
         lots |-> removeEmptyLots(lots)]
  IN entry(RSub(assetPos.quantity, quant), RSub(assetPos.totalCost, totalCost))

\* the symbol has no position: the close throws before it has written anything
closeNotFound_charged(p, symbol, comm) == Thrown([p EXCEPT !.totalCommission = RAdd(@, comm)])

closeNotFound(p, symbol, comm) == Thrown(p)

\* the entry written back by a close: deleted from its map once no lot is left
removeIfNoLots_clearAll(map, symbol, assetPos) ==
  IF Len(assetPos.lots) = 0 THEN EmptyMap ELSE MapSet(map, symbol, assetPos)

removeIfNoLots(map, symbol, assetPos) ==
  IF Len(assetPos.lots) = 0 THEN MapDelete(map, symbol) ELSE MapSet(map, symbol, assetPos)

closeLong(p, symbol, price, quant, comm, strat, time) ==
  IF ~MapHas(p.long, symbol) THEN closeNotFound(p, symbol, comm)
  ELSE
    LET assetPos == p.long[symbol]
        sold(proceeds, loop, realisedPnL) ==
          Returned([p EXCEPT !.cash = RAdd(@, proceeds),
                             !.totalCommission = RAdd(@, comm),
                             !.realisedPnL = RAdd(@, realisedPnL),
                             !.modified = time,
                             !.long = removeIfNoLots(@, symbol,
                                        closeLongEntry(assetPos, loop.lots, quant,
                                                       loop.totalCost, realisedPnL))],
                   realisedPnL)
        closed(proceeds, loop) == sold(proceeds, loop, RSub(proceeds, loop.totalCost))
    IN closed(RSub(RMul(price, quant), comm),
              closeLongLoop(assetPos.lots, closeOrder(strat, Len(assetPos.lots)), quant, Zero))

openShortProceeds(price, quant, comm) == RSub(RMul(price, quant), comm)

openShortEntry(assetPos, lot, quant, proceeds) ==
  LET entry(quantity, totalProceeds) ==
        [quantity |-> quantity,
         totalProceeds |-> totalProceeds,
         averageProceeds |-> RDiv(totalProceeds, quantity),
         realisedPnL |-> assetPos.realisedPnL,
         lots |-> Append(assetPos.lots, lot)]
  IN entry(RAdd(assetPos.quantity, quant), RAdd(assetPos.totalProceeds, proceeds))

openShort(p, symbol, price, quant, comm, time, id) ==
  LET assetPos(proceeds, lot) ==
        IF ~MapHas(p.short, symbol)
        THEN [quantity |-> quant, totalProceeds |-> proceeds,
              averageProceeds |-> RDiv(proceeds, quant),
              realisedPnL |-> Zero, lots |-> <<lot>>]
        ELSE openShortEntry(p.short[symbol], lot, quant, proceeds)
      sold(proceeds) ==
        Returned([p EXCEPT !.cash = RAdd(@, proceeds),
                           !.short = MapSet(@, symbol,
                                       assetPos(proceeds,
                                                ShortPositionLot(id, quant, price, proceeds))),
                           !.totalCommission = RAdd(@, comm),
                           !.modified = time],
                 proceeds)
  IN sold(openShortProceeds(price, quant, comm))

lotProceedsOf(lot, closeQty) ==
  IF StrictEq(closeQty, lot.quantity) THEN lot.totalProceeds
  ELSE RMul(RDiv(lot.totalProceeds, lot.quantity), closeQty)

RECURSIVE closeShortLoop(_, _, _, _)
closeShortLoop(lots, order, remainingQty, totalProceeds) ==
  IF order = <<>> \/ RLe(remainingQty, Zero)
  THEN [lots |-> lots, remainingQty |-> remainingQty, totalProceeds |-> totalProceeds]
  ELSE LET taken(i, closeQty, lotProceeds) ==
             closeShortLoop(
               [lots EXCEPT ![i] = [@ EXCEPT !.quantity = RSub(@, closeQty),
                                             !.totalProceeds = RSub(@, lotProceeds)]],
               Tail(order), RSub(remainingQty, closeQty), RAdd(totalProceeds, lotProceeds))
           closing(i, closeQty) == taken(i, closeQty, lotProceedsOf(lots[i], closeQty))
       IN closing(Head(order), RMin(lots[Head(order)].quantity, remainingQty))

closeShortEntry(assetPos, lots, quant, totalProceeds, realisedPnL) ==
  LET entry(quantity, total) ==
        [quantity |-> quantity,
         totalProceeds |-> total,
         averageProceeds |-> IF RLt(Zero, quantity) THEN RDiv(total, quantity) ELSE Zero,
         realisedPnL |-> RAdd(assetPos.realisedPnL, realisedPnL),
         lots |-> removeEmptyLots(lots)]
  IN entry(RSub(assetPos.quantity, quant), RSub(assetPos.totalProceeds, totalProceeds))

closeShort(p, symbol, price, quant, comm, strat, time) ==
  IF ~MapHas(p.short, symbol) THEN closeNotFound(p, symbol, comm)
  ELSE
    LET assetPos == p.short[symbol]
        bought(cost, loop, realisedPnL) ==
          Returned([p EXCEPT !.cash = RSub(@, cost),
                             !.totalCommission = RAdd(@, comm),
                             !.realisedPnL = RAdd(@, realisedPnL),
                             !.modified = time,
                             !.short = removeIfNoLots(@, symbol,
                                         closeShortEntry(assetPos, loop.lots, quant,
                                                         loop.totalProceeds, realisedPnL))],
                   realisedPnL)
        closed(cost, loop) == bought(cost, loop, RSub(loop.totalProceeds, cost))
    IN closed(RAdd(RMul(price, quant), comm),
              closeShortLoop(assetPos.lots, closeOrder(strat, Len(assetPos.lots)), quant, Zero))

(***************************************************************************)
(* Cash of a Portfolio and its stock corporate actions (portfolio.utils.ts, *)
(* stock.utils.ts).  These functions work on a Portfolio: its longPosition  *)
(* and shortPosition maps and its cash in the asset's currency.  A          *)
(* Portfolio of one currency is the same record as a Position, long and     *)
(* short standing for longPosition and shortPosition, cash,                 *)
(* totalCommission and realisedPnL for the entries of that currency, and    *)
(* otherCash for the cash entries of the other currencies.                  *)
(***************************************************************************)
\* the currency the assets of the model are quoted in
Currency == "USD"

\* p.cash.get(currency)
cashGet(p, currency) ==
  IF currency = Currency THEN p.cash
  ELSE IF currency \in DOMAIN p.otherCash THEN p.otherCash[currency] ELSE Undefined

\* p.cash.set(currency, balance)
cashSet(p, currency, balance) ==
  IF currency = Currency THEN [p EXCEPT !.cash = balance]
  ELSE [p EXCEPT !.otherCash = MapSet(@, currency, balance)]

\* p.cash.get(currency) ?? 0
balanceOf(p, currency) ==
  IF cashGet(p, currency) = Undefined THEN Zero ELSE cashGet(p, currency)

\* debit_cash, exported as deposit: the balance of the currency, 0 when absent, plus amount
deposit(p, currency, amount) ==
  Returned(cashSet(p, currency, RAdd(balanceOf(p, currency), amount)), Undefined)

\* credit_cash, exported as withdraw: no check that the balance covers the amount
withdraw(p, currency, amount) ==
  Returned(cashSet(p, currency, RSub(balanceOf(p, currency), amount)), Undefined)

\* the Portfolio as an open reads it: credit_cash / debit_cash and add_commission take
\* the entries of the asset's currency as get(currency) ?? 0
openEntries(p) == [p EXCEPT !.cash = orZero(@), !.totalCommission = orZero(@)]

\* the Portfolio as a close reads it: update_realised_pnl does the same to realisedPnL
closeEntries(p) ==
  [p EXCEPT !.cash = orZero(@), !.totalCommission = orZero(@), !.realisedPnL = orZero(@)]

\* The trades of the account the caller holds.  portfolio.utils.ts runs the algorithm of
\* position.utils.ts on a Portfolio and differs in how it reads the entries it books to;
\* a close looks the position up, and throws, before it reads any of them.
openLongOn(acct, p, symbol, price, quant, comm, time, id) ==
  openLong(IF acct = "Portfolio" THEN openEntries(p) ELSE p,
           symbol, price, quant, comm, time, id)

closeLongOn(acct, p, symbol, price, quant, comm, strat, time) ==
  closeLong(IF acct = "Portfolio" /\ MapHas(p.long, symbol) THEN closeEntries(p) ELSE p,
            symbol, price, quant, comm, strat, time)

openShortOn(acct, p, symbol, price, quant, comm, time, id) ==
  openShort(IF acct = "Portfolio" THEN openEntries(p) ELSE p,
            symbol, price, quant, comm, time, id)

closeShortOn(acct, p, symbol, price, quant, comm, strat, time) ==
  closeShort(IF acct = "Portfolio" /\ MapHas(p.short, symbol) THEN closeEntries(p) ELSE p,
             symbol, price, quant, comm, strat, time)

splitLots(lots, ratio) ==
  [i \in DOMAIN lots |-> [lots[i] EXCEPT !.quantity = RMul(@, ratio)]]

splitLong(long, ratio) ==
  [long EXCEPT !.lots = splitLots(@, ratio),
               !.quantity = RMul(@, ratio),
               !.averageCost = RDiv(long.totalCost, RMul(long.quantity, ratio))]

splitShort(short, ratio) ==
  [short EXCEPT !.lots = splitLots(@, ratio),
                !.quantity = RMul(@, ratio),
                !.averageProceeds = RDiv(short.totalProceeds, RMul(short.quantity, ratio))]

handleSplit_negativeOnly(p, symbol, ratio, time) ==
  IF RLt(ratio, Zero) THEN Thrown(p)
  ELSE Returned(
    [p EXCEPT !.long = IF MapHas(@, symbol) THEN MapSet(@, symbol, splitLong(@[symbol], ratio)) ELSE @,
              !.short = IF MapHas(@, symbol) THEN MapSet(@, symbol, splitShort(@[symbol], ratio)) ELSE @,
              !.modified = time],
    Undefined)

handleSplit(p, symbol, ratio, time) ==
  IF RLe(ratio, Zero) THEN Thrown(p)
  ELSE Returned(
    [p EXCEPT !.long = IF MapHas(@, symbol) THEN MapSet(@, symbol, splitLong(@[symbol], ratio)) ELSE @,
              !.short = IF MapHas(@, symbol) THEN MapSet(@, symbol, splitShort(@[symbol], ratio)) ELSE @,
              !.modified = time],
    Undefined)

afterTaxOf_gross(lot, amountPerShare, taxRate) ==
  RMul(lot.quantity, amountPerShare)

afterTaxOf(lot, amountPerShare, taxRate) ==
  RMul(RMul(lot.quantity, amountPerShare), RSub(One, taxRate))

totalPaidOf(long, amountPerShare, taxRate) ==
  SumSeq([i \in DOMAIN long.lots |-> afterTaxOf(long.lots[i], amountPerShare, taxRate)])

dividendLong(long, amountPerShare, taxRate) ==
  LET totalPaid == totalPaidOf(long, amountPerShare, taxRate)
  IN [long EXCEPT
        !.lots = [i \in DOMAIN long.lots |->
                    [long.lots[i] EXCEPT !.totalCost = RSub(@, afterTaxOf(long.lots[i], amountPerShare, taxRate))]],
        !.totalCost = RSub(@, totalPaid),
        !.averageCost = RDiv(RSub(long.totalCost, totalPaid), long.quantity)]

totalOwedOf(short, amountPerShare) ==
  SumSeq([i \in DOMAIN short.lots |-> RMul(short.lots[i].quantity, amountPerShare)])

dividendShort(short, amountPerShare) ==
  LET totalOwed == totalOwedOf(short, amountPerShare)
  IN [short EXCEPT
        !.lots = [i \in DOMAIN short.lots |->
                    [short.lots[i] EXCEPT !.totalProceeds = RSub(@, RMul(short.lots[i].quantity, amountPerShare))]],
        !.totalProceeds = RSub(@, totalOwed),
        !.averageProceeds = RDiv(RSub(short.totalProceeds, totalOwed), short.quantity)]

handleCashDividend(p, symbol, amountPerShare, taxRate, time) ==
  IF RLt(amountPerShare, Zero) THEN Thrown(p)
  ELSE IF RLt(taxRate, Zero) \/ RLt(One, taxRate) THEN Thrown(p)
  ELSE
    LET hasLong == MapHas(p.long, symbol)
        hasShort == MapHas(p.short, symbol)
        totalPaid == IF hasLong THEN totalPaidOf(p.long[symbol], amountPerShare, taxRate) ELSE Zero
        totalOwed == IF hasShort THEN totalOwedOf(p.short[symbol], amountPerShare) ELSE Zero
        cashFlow == RSub(RAdd(Zero, totalPaid), totalOwed)
    IN Returned(
         [p EXCEPT !.long = IF hasLong
                            THEN MapSet(@, symbol, dividendLong(@[symbol], amountPerShare, taxRate))
                            ELSE @,
                   !.short = IF hasShort
                             THEN MapSet(@, symbol, dividendShort(@[symbol], amountPerShare))
                             ELSE @,
                   !.cash = deposit(p, Currency, cashFlow).pos.cash,
                   !.modified = time],
         cashFlow)

\* handleSpinoff: the free lot goes to the long position of newSymbol; a position already
\* there gets the quantity, a new average and the lot, its totalCost is not written
spinoffAddLong(long, newSymbol, newLot) ==
  IF ~MapHas(long, newSymbol)
  THEN MapSet(long, newSymbol,
         [quantity |-> newLot.quantity, totalCost |-> Zero,
          averageCost |-> Zero, realisedPnL |-> Zero, lots |-> <<newLot>>])
  ELSE LET grown(newPos, quantity) ==
             MapSet(long, newSymbol,
               [newPos EXCEPT !.quantity = quantity,
                              !.averageCost = RDiv(newPos.totalCost, quantity),
                              !.lots = Append(@, newLot)])
       IN grown(long[newSymbol], RAdd(long[newSymbol].quantity, newLot.quantity))

spinoffAddShort(short, newSymbol, newLot) ==
  IF ~MapHas(short, newSymbol)
  THEN MapSet(short, newSymbol,
         [quantity |-> newLot.quantity, totalProceeds |-> Zero,
          averageProceeds |-> Zero, realisedPnL |-> Zero, lots |-> <<newLot>>])
  ELSE LET grown(newPos, quantity) ==
             MapSet(short, newSymbol,
               [newPos EXCEPT !.quantity = quantity,
                              !.averageProceeds = RDiv(newPos.totalProceeds, quantity),
                              !.lots = Append(@, newLot)])
       IN grown(short[newSymbol], RAdd(short[newSymbol].quantity, newLot.quantity))

\* handleMerger: append newLot to the long position of newSymbol, creating it when absent
stockAddLong(long, newSymbol, newLot) ==
  IF ~MapHas(long, newSymbol)
  THEN MapSet(long, newSymbol,
         [quantity |-> newLot.quantity, totalCost |-> newLot.totalCost,
          averageCost |-> newLot.price, realisedPnL |-> Zero, lots |-> <<newLot>>])
  ELSE LET newPos == long[newSymbol]
       IN MapSet(long, newSymbol,
            [newPos EXCEPT
               !.quantity = RAdd(@, newLot.quantity),
               !.totalCost = RAdd(@, newLot.totalCost),
               !.averageCost = RDiv(RAdd(newPos.totalCost, newLot.totalCost),
                                    RAdd(newPos.quantity, newLot.quantity)),
               !.lots = Append(@, newLot)])

stockAddShort(short, newSymbol, newLot) ==
  IF ~MapHas(short, newSymbol)
  THEN MapSet(short, newSymbol,
         [quantity |-> newLot.quantity, totalProceeds |-> newLot.totalProceeds,
          averageProceeds |-> newLot.price, realisedPnL |-> Zero, lots |-> <<newLot>>])
  ELSE LET newPos == short[newSymbol]
       IN MapSet(short, newSymbol,
            [newPos EXCEPT
               !.quantity = RAdd(@, newLot.quantity),
               !.totalProceeds = RAdd(@, newLot.totalProceeds),
               !.averageProceeds = RDiv(RAdd(newPos.totalProceeds, newLot.totalProceeds),
                                        RAdd(newPos.quantity, newLot.quantity)),
               !.lots = Append(@, newLot)])

handleSpinoff(p, symbol, newSymbol, ratio, time, id) ==
  IF RLe(ratio, Zero) THEN Thrown(p)
  ELSE Returned(
    [p EXCEPT
       !.long = IF MapHas(@, symbol)
                THEN spinoffAddLong(@, newSymbol,
                       LongPositionLot(id, RMul(@[symbol].quantity, ratio), Zero, Zero))
                ELSE @,
       !.short = IF MapHas(@, symbol)
                 THEN spinoffAddShort(@, newSymbol,
                        ShortPositionLot(id, RMul(@[symbol].quantity, ratio), Zero, Zero))
                 ELSE @,
       !.modified = time],
    Undefined)

mergerLongLot_fullBasis(long, ratio, cashComponent, id) ==
  LET newShares == RMul(long.quantity, ratio)
  IN LongPositionLot(id, newShares, RDiv(long.totalCost, newShares), long.totalCost)

mergerLongLot(long, ratio, cashComponent, id) ==
  LET newShares == RMul(long.quantity, ratio)
      newCost == RSub(long.totalCost, RMul(long.quantity, cashComponent))
  IN LongPositionLot(id, newShares, RDiv(newCost, newShares), newCost)

mergerShortLot(short, ratio, cashComponent, id) ==
  LET newShorts == RMul(short.quantity, ratio)
      newProceeds == RSub(short.totalProceeds, RMul(short.quantity, cashComponent))
  IN ShortPositionLot(id, newShorts, RDiv(newProceeds, newShorts), newProceeds)

handleMerger(p, symbol, newSymbol, ratio, cashComponent, time, id) ==
  IF RLe(ratio, Zero) THEN Thrown(p)
  ELSE IF RLt(cashComponent, Zero) THEN Thrown(p)
  ELSE
    LET cashReceived == IF MapHas(p.long, symbol)
                        THEN RMul(p.long[symbol].quantity, cashComponent) ELSE Zero
        cashOwed == IF MapHas(p.short, symbol)
                    THEN RMul(p.short[symbol].quantity, cashComponent) ELSE Zero
        cashFlow == RSub(RAdd(Zero, cashReceived), cashOwed)
    IN Returned(
         [p EXCEPT
            !.long = IF MapHas(@, symbol)
                     THEN MapDelete(stockAddLong(@, newSymbol,
                                      mergerLongLot(@[symbol], ratio, cashComponent, id)), symbol)
                     ELSE @,
            !.short = IF MapHas(@, symbol)
                      THEN MapDelete(stockAddShort(@, newSymbol,
                                       mergerShortLot(@[symbol], ratio, cashComponent, id)), symbol)
                      ELSE @,
            !.cash = deposit(p, Currency, cashFlow).pos.cash,
            !.modified = time],
         cashFlow)

(***************************************************************************)
(* Chain actions (crypto.utils.ts).  Positions created here carry no       *)
(* averageCost / averageProceeds field, and none of these functions        *)
(* assigns one.                                                            *)
(***************************************************************************)
\* hard fork / airdrop: zero-cost lot pushed, only quantity accumulated
cryptoAddFreeLong_replacing(long, newSymbol, newLot) ==
  MapSet(long, newSymbol,
    [quantity |-> newLot.quantity, totalCost |-> Zero,
     averageCost |-> Undefined, realisedPnL |-> Zero, lots |-> <<newLot>>])

cryptoAddFreeLong(long, newSymbol, newLot) ==
  IF ~MapHas(long, newSymbol)
  THEN MapSet(long, newSymbol,
         [quantity |-> newLot.quantity, totalCost |-> Zero,
          averageCost |-> Undefined, realisedPnL |-> Zero, lots |-> <<newLot>>])
  ELSE MapSet(long, newSymbol,
         [long[newSymbol] EXCEPT !.quantity = RAdd(@, newLot.quantity),
                                 !.lots = Append(@, newLot)])

cryptoAddFreeShort(short, newSymbol, newLot) ==
  IF ~MapHas(short, newSymbol)
  THEN MapSet(short, newSymbol,
         [quantity |-> newLot.quantity, totalProceeds |-> Zero,
          averageProceeds |-> Undefined, realisedPnL |-> Zero, lots |-> <<newLot>>])
  ELSE MapSet(short, newSymbol,
         [short[newSymbol] EXCEPT !.quantity = RAdd(@, newLot.quantity),
                                  !.lots = Append(@, newLot)])

handleHardFork_unscaled(p, symbol, newSymbol, ratio, time, id) ==
  IF RLe(ratio, Zero) THEN Thrown(p)
  ELSE Returned(
    [p EXCEPT
       !.long = IF MapHas(@, symbol)
                THEN cryptoAddFreeLong(@, newSymbol,
                       LongPositionLot(id, @[symbol].quantity, Zero, Zero))
                ELSE @,
       !.short = IF MapHas(@, symbol)
                 THEN cryptoAddFreeShort(@, newSymbol,
                        ShortPositionLot(id, @[symbol].quantity, Zero, Zero))
                 ELSE @,
       !.modified = IF MapHas(p.long, symbol) \/ MapHas(p.short, symbol) THEN time ELSE @],
    Undefined)

handleHardFork(p, symbol, newSymbol, ratio, time, id) ==
  IF RLe(ratio, Zero) THEN Thrown(p)
  ELSE Returned(
    [p EXCEPT
       !.long = IF MapHas(@, symbol)
                THEN cryptoAddFreeLong(@, newSymbol,
                       LongPositionLot(id, RMul(@[symbol].quantity, ratio), Zero, Zero))
                ELSE @,
       !.short = IF MapHas(@, symbol)
                 THEN cryptoAddFreeShort(@, newSymbol,
                        ShortPositionLot(id, RMul(@[symbol].quantity, ratio), Zero, Zero))
                 ELSE @,
       !.modified = IF MapHas(p.long, symbol) \/ MapHas(p.short, symbol) THEN time ELSE @],
    Undefined)

\* holderSymbol: string | null.  null is the empty tuple and a string s the tuple <<s>>,
\* so that no string, "null" included, is taken for null.
NoSymbol == <<>>
Holder(symbol) == <<symbol>>
SymbolOf(holderSymbol) == holderSymbol[1]
\* !holderSymbol: null and the empty string are falsy
NoHolder(holderSymbol) == holderSymbol = NoSymbol \/ SymbolOf(holderSymbol) = ""

airdropQuantityOf(p, holderSymbol, amountPerToken, fixedAmount) ==
  IF ~NoHolder(holderSymbol)
  THEN IF MapHas(p.long, SymbolOf(holderSymbol))
       THEN RMul(p.long[SymbolOf(holderSymbol)].quantity, amountPerToken) ELSE Zero
  ELSE fixedAmount

handleAirdrop_positiveOnly(p, holderSymbol, airdropSymbol, amountPerToken, fixedAmount, time, id) ==
  IF NoHolder(holderSymbol) /\ RLe(fixedAmount, Zero) THEN Thrown(p)
  ELSE IF RLt(amountPerToken, Zero) THEN Thrown(p)
  ELSE IF ~NoHolder(holderSymbol) /\ RLe(amountPerToken, Zero) THEN Thrown(p)
  ELSE
    LET airdropQuantity == airdropQuantityOf(p, holderSymbol, amountPerToken, fixedAmount)
    IN IF RLe(airdropQuantity, Zero) THEN Returned(p, Undefined)
       ELSE Returned(
         [p EXCEPT !.long = cryptoAddFreeLong(@, airdropSymbol,
                              LongPositionLot(id, airdropQuantity, Zero, Zero)),
                   !.modified = time],
         Undefined)

handleAirdrop(p, holderSymbol, airdropSymbol, amountPerToken, fixedAmount, time, id) ==
  IF NoHolder(holderSymbol) /\ RLe(fixedAmount, Zero) THEN Thrown(p)
  ELSE IF RLt(amountPerToken, Zero) THEN Thrown(p)
  ELSE
    LET airdropQuantity == airdropQuantityOf(p, holderSymbol, amountPerToken, fixedAmount)
    IN IF RLe(airdropQuantity, Zero) THEN Returned(p, Undefined)
       ELSE Returned(
         [p EXCEPT !.long = cryptoAddFreeLong(@, airdropSymbol,
                              LongPositionLot(id, airdropQuantity, Zero, Zero)),
                   !.modified = time],
         Undefined)

swapAddLong(long, newSymbol, newLot) ==
  IF ~MapHas(long, newSymbol)
  THEN MapSet(long, newSymbol,
         [quantity |-> newLot.quantity, totalCost |-> newLot.totalCost,
          averageCost |-> Undefined, realisedPnL |-> Zero, lots |-> <<newLot>>])
  ELSE MapSet(long, newSymbol,
         [long[newSymbol] EXCEPT !.quantity = RAdd(@, newLot.quantity),
                                 !.totalCost = RAdd(@, newLot.totalCost),
                                 !.lots = Append(@, newLot)])

swapAddShort(short, newSymbol, newLot) ==
  IF ~MapHas(short, newSymbol)
  THEN MapSet(short, newSymbol,
         [quantity |-> newLot.quantity, totalProceeds |-> newLot.totalProceeds,
          averageProceeds |-> Undefined, realisedPnL |-> Zero, lots |-> <<newLot>>])
  ELSE MapSet(short, newSymbol,
         [short[newSymbol] EXCEPT !.quantity = RAdd(@, newLot.quantity),
                                  !.totalProceeds = RAdd(@, newLot.totalProceeds),
                                  !.lots = Append(@, newLot)])

swapLongLot(long, ratio, id) ==
  LET newTokens == RMul(long.quantity, ratio)
  IN LongPositionLot(id, newTokens, RDiv(long.totalCost, newTokens), long.totalCost)

swapShortLot(short, ratio, id) ==
  LET newTokens == RMul(short.quantity, ratio)
  IN ShortPositionLot(id, newTokens, RDiv(short.totalProceeds, newTokens), short.totalProceeds)

handleTokenSwap(p, oldSymbol, newSymbol, ratio, time, id) ==
  IF RLe(ratio, Zero) THEN Thrown(p)
  ELSE Returned(
    [p EXCEPT
       !.long = IF MapHas(@, oldSymbol)
                THEN MapDelete(swapAddLong(@, newSymbol, swapLongLot(@[oldSymbol], ratio, id)),
                               oldSymbol)
                ELSE @,
       !.short = IF MapHas(@, oldSymbol)
                 THEN MapDelete(swapAddShort(@, newSymbol, swapShortLot(@[oldSymbol], ratio, id)),
                                oldSymbol)
                 ELSE @,
       !.modified = IF MapHas(p.long, oldSymbol) \/ MapHas(p.short, oldSymbol) THEN time ELSE @],
    Undefined)

stakeLong_lotOnly(long, rewardQuantity, id) ==
  [long EXCEPT !.lots = Append(@, LongPositionLot(id, rewardQuantity, Zero, Zero))]

stakeLong(long, rewardQuantity, id) ==
  [long EXCEPT !.quantity = RAdd(@, rewardQuantity),
               !.lots = Append(@, LongPositionLot(id, rewardQuantity, Zero, Zero))]

handleStakingReward(p, symbol, rewardPerToken, time, id) ==
  IF RLt(rewardPerToken, Zero) THEN Thrown(p)
  ELSE IF MapHas(p.long, symbol)
       THEN LET rewardQuantity == RMul(p.long[symbol].quantity, rewardPerToken)
            IN Returned([p EXCEPT !.long = MapSet(@, symbol, stakeLong(@[symbol], rewardQuantity, id)),
                                  !.modified = time],
                        rewardQuantity)
       ELSE Returned(p, Zero)

(***************************************************************************)
(* Fill applicator (fill.utils.ts, carried in crypto.utils.ts).            *)
(* A fill is [symbol, effect, price, quantity, commission].                *)
(***************************************************************************)
ApplyFillResult(fills, cashFlow, realisedPnL) ==
  [fills |-> fills, cashFlow |-> cashFlow, realisedPnL |-> realisedPnL]

closeLongCashFlow_gross(fill) == RMul(fill.price, fill.quantity)

\* the cash flow applyFill reports for a CLOSE_LONG fill
closeLongCashFlow(fill) == RSub(RMul(fill.price, fill.quantity), fill.commission)

applyFill(position, fill, closeStrategy, time, id) ==
  LET \* an open returns its cash flow and realises nothing
      opened(r) == Returned(r.pos, ApplyFillResult(<<fill>>, r.ret, Zero))
      \* a close returns what it realised; a close that throws ends applyFill
      closed(r, cashFlow) ==
        IF r.threw THEN Thrown(r.pos)
        ELSE Returned(r.pos, ApplyFillResult(<<fill>>, cashFlow, r.ret))
  IN CASE fill.effect = "OPEN_LONG" ->
            opened(openLong(position, fill.symbol, fill.price, fill.quantity,
                            fill.commission, time, id))
       [] fill.effect = "CLOSE_LONG" ->
            closed(closeLong(position, fill.symbol, fill.price, fill.quantity,
                             fill.commission, closeStrategy, time),
                   closeLongCashFlow(fill))
       [] fill.effect = "OPEN_SHORT" ->
            opened(openShort(position, fill.symbol, fill.price, fill.quantity,
                             fill.commission, time, id))
       [] fill.effect = "CLOSE_SHORT" ->
            closed(closeShort(position, fill.symbol, fill.price, fill.quantity,
                              fill.commission, closeStrategy, time),
                   RNeg(RAdd(RMul(fill.price, fill.quantity), fill.commission)))

accumulate_overwrite(acc, fill, result) ==
  ApplyFillResult(Append(acc.fills, fill), result.cashFlow, result.realisedPnL)

\* one pass of the loop body: the fill is recorded and the totals grow by its result
accumulate(acc, fill, result) ==
  ApplyFillResult(Append(acc.fills, fill),
                  RAdd(acc.cashFlow, result.cashFlow),
                  RAdd(acc.realisedPnL, result.realisedPnL))

\* the for loop of applyFills from its k-th fill on; time and id of a fill follow its rank
RECURSIVE applyFillsLoop(_, _, _, _, _, _)
applyFillsLoop(position, fills, k, closeStrategy, acc, time) ==
  IF k > Len(fills) THEN Returned(position, acc)
  ELSE LET applied(result) ==
             IF result.threw THEN Thrown(result.pos)
             ELSE applyFillsLoop(result.pos, fills, k + 1, closeStrategy,
                    accumulate(acc, fills[k], result.ret), time)
       IN applied(applyFill(position, fills[k], closeStrategy, time + k - 1, time + k - 2))

applyFills(position, fills, closeStrategy, time) ==
  applyFillsLoop(position, fills, 1, closeStrategy, ApplyFillResult(<<>>, Zero, Zero), time)

(***************************************************************************)
(* Order validator (order.validation.ts).  An order is [symbol, type,       *)
(* effect, quantity, price, stopPrice], an absent price field being         *)
(* Undefined; a snapshot is [price], a Map from symbol to number.  A        *)
(* verdict is [valid] or [valid, error], the error a record tagged by type. *)
(***************************************************************************)
Valid == [valid |-> TRUE]
Invalid(error) == [valid |-> FALSE, error |-> error]
\* what a function gives back when no return statement is reached
NoVerdict == [undefined |-> TRUE]

MapGet(m, k) == IF MapHas(m, k) THEN m[k] ELSE Undefined

\* !x of a number or undefined: undefined, NaN and 0 are falsy
Falsy(x) == x \in {Undefined, NaN} \/ IsZero(x)

validatePriceField(price) ==
  IF price = Undefined THEN Invalid([type |-> "MISSING_PRICE"])
  ELSE IF RLe(price, Zero) THEN Invalid([type |-> "INVALID_PRICE", value |-> price])
  ELSE Valid

validateStopPriceField(stopPrice) ==
  IF stopPrice = Undefined THEN Invalid([type |-> "MISSING_STOP_PRICE"])
  ELSE IF RLe(stopPrice, Zero)
       THEN Invalid([type |-> "INVALID_STOP_PRICE", value |-> stopPrice])
  ELSE Valid

validateOpenLongEffect_noCheck(quantity, price, position) == Valid

validateOpenLongEffect(quantity, price, position) ==
  LET cost == RMul(price, quantity)
  IN IF RLt(position.cash, cost)
     THEN Invalid([type |-> "INSUFFICIENT_CASH", required |-> cost,
                   available |-> position.cash])
     ELSE Valid

validateCloseLongEffect_anyQuantity(symbol, quantity, position) ==
  IF ~MapHas(position.long, symbol)
  THEN Invalid([type |-> "POSITION_NOT_FOUND", symbol |-> symbol, positionType |-> "LONG"])
  ELSE Valid

validateCloseLongEffect(symbol, quantity, position) ==
  IF ~MapHas(position.long, symbol)
  THEN Invalid([type |-> "POSITION_NOT_FOUND", symbol |-> symbol, positionType |-> "LONG"])
  ELSE IF RLt(position.long[symbol].quantity, quantity)
       THEN Invalid([type |-> "INSUFFICIENT_POSITION", symbol |-> symbol,
                     positionType |-> "LONG", required |-> quantity,
                     available |-> position.long[symbol].quantity])
  ELSE Valid

validateOpenShortEffect == Valid

validateCloseShortEffect_unfunded(symbol, quantity, price, position) ==
  IF ~MapHas(position.short, symbol)
  THEN Invalid([type |-> "POSITION_NOT_FOUND", symbol |-> symbol, positionType |-> "SHORT"])
  ELSE IF RLt(position.short[symbol].quantity, quantity)
       THEN Invalid([type |-> "INSUFFICIENT_POSITION", symbol |-> symbol,
                     positionType |-> "SHORT", required |-> quantity,
                     available |-> position.short[symbol].quantity])
  ELSE Valid

validateCloseShortEffect(symbol, quantity, price, position) ==
  IF ~MapHas(position.short, symbol)
  THEN Invalid([type |-> "POSITION_NOT_FOUND", symbol |-> symbol, positionType |-> "SHORT"])
  ELSE IF RLt(position.short[symbol].quantity, quantity)
       THEN Invalid([type |-> "INSUFFICIENT_POSITION", symbol |-> symbol,
                     positionType |-> "SHORT", required |-> quantity,
                     available |-> position.short[symbol].quantity])
  ELSE LET cost == RMul(price, quantity)
       IN IF RLt(position.cash, cost)
          THEN Invalid([type |-> "INSUFFICIENT_CASH", required |-> cost,
                        available |-> position.cash])
          ELSE Valid

validateMarketOrder(order, position, snapshot) ==
  LET marketPrice == MapGet(snapshot.price, order.symbol)
  IN IF Falsy(marketPrice)
     THEN Invalid([type |-> "MARKET_DATA_MISSING", symbol |-> order.symbol])
     ELSE CASE order.effect = "OPEN_LONG" ->
                 validateOpenLongEffect(order.quantity, marketPrice, position)
            [] order.effect = "CLOSE_LONG" ->
                 validateCloseLongEffect(order.symbol, order.quantity, position)
            [] order.effect = "OPEN_SHORT" -> validateOpenShortEffect
            [] order.effect = "CLOSE_SHORT" ->
                 validateCloseShortEffect(order.symbol, order.quantity, marketPrice, position)
            [] OTHER -> NoVerdict

validateLimitOrder(order, position, snapshot) ==
  CASE order.effect = "OPEN_LONG" ->
         validateOpenLongEffect(order.quantity, order.price, position)
    [] order.effect = "CLOSE_LONG" ->
         validateCloseLongEffect(order.symbol, order.quantity, position)
    [] order.effect = "OPEN_SHORT" -> validateOpenShortEffect
    [] order.effect = "CLOSE_SHORT" ->
         validateCloseShortEffect(order.symbol, order.quantity, order.price, position)
    [] OTHER -> NoVerdict

stopBuyRejected_strict(stopPrice, currentPrice) == RLt(stopPrice, currentPrice)

\* stop-buy (OPEN_LONG, CLOSE_SHORT): the trigger must be above the current price
stopBuyRejected(stopPrice, currentPrice) == RLe(stopPrice, currentPrice)

\* stop-sell (CLOSE_LONG, OPEN_SHORT): the trigger must be below the current price
stopSellRejected(stopPrice, currentPrice) == RLe(currentPrice, stopPrice)

validateStopOrderDirection(order, snapshot) ==
  LET currentPrice == MapGet(snapshot.price, order.symbol)
      stopPrice == order.stopPrice
  IN IF Falsy(currentPrice)
     THEN Invalid([type |-> "MARKET_DATA_MISSING", symbol |-> order.symbol])
     ELSE CASE order.effect \in {"OPEN_LONG", "CLOSE_SHORT"} ->
                 IF stopBuyRejected(stopPrice, currentPrice)
                 THEN Invalid([type |-> "INVALID_STOP_DIRECTION", stopPrice |-> stopPrice,
                               currentPrice |-> currentPrice, expectedDirection |-> "ABOVE"])
                 ELSE Valid
            [] order.effect \in {"CLOSE_LONG", "OPEN_SHORT"} ->
                 IF stopSellRejected(stopPrice, currentPrice)
                 THEN Invalid([type |-> "INVALID_STOP_DIRECTION", stopPrice |-> stopPrice,
                               currentPrice |-> currentPrice, expectedDirection |-> "BELOW"])
                 ELSE Valid
            [] OTHER -> NoVerdict

quantityRejected_negative(quantity) == RLt(quantity, Zero)

quantityRejected(quantity) == RLe(quantity, Zero)

\* case "LIMIT" of the dispatcher
validateLimitCase(order, position, snapshot) ==
  LET priceValidation == validatePriceField(order.price)
  IN IF ~priceValidation.valid THEN priceValidation
     ELSE validateLimitOrder(order, position, snapshot)

validateStopCase_funded(order, position, snapshot) ==
  LET stopPriceValidation == validateStopPriceField(order.stopPrice)
  IN IF ~stopPriceValidation.valid THEN stopPriceValidation
     ELSE IF ~validateOpenLongEffect(order.quantity, order.stopPrice, position).valid
          THEN validateOpenLongEffect(order.quantity, order.stopPrice, position)
     ELSE validateStopOrderDirection(order, snapshot)

\* case "STOP" of the dispatcher
validateStopCase(order, position, snapshot) ==
  LET stopPriceValidation == validateStopPriceField(order.stopPrice)
  IN IF ~stopPriceValidation.valid THEN stopPriceValidation
     ELSE validateStopOrderDirection(order, snapshot)

validateStopLimitCase_unchecked(order, position, snapshot) ==
  LET priceValidation == validatePriceField(order.price)
  IN IF ~priceValidation.valid THEN priceValidation
     ELSE IF order.stopPrice = Undefined THEN NoVerdict
     ELSE validateStopOrderDirection(order, snapshot)

\* case "STOP_LIMIT" of the dispatcher
validateStopLimitCase(order, position, snapshot) ==
  LET priceValidation == validatePriceField(order.price)
      stopPriceValidation == validateStopPriceField(order.stopPrice)
  IN IF ~priceValidation.valid THEN priceValidation
     ELSE IF ~stopPriceValidation.valid THEN stopPriceValidation
     ELSE validateStopOrderDirection(order, snapshot)

\* the verdict validateOrder returns
validateOrderVerdict(order, position, snapshot) ==
  IF quantityRejected(order.quantity)
  THEN Invalid([type |-> "INVALID_QUANTITY", value |-> order.quantity])
  ELSE CASE order.type = "MARKET" -> validateMarketOrder(order, position, snapshot)
         [] order.type = "LIMIT" -> validateLimitCase(order, position, snapshot)
         [] order.type = "STOP" -> validateStopCase(order, position, snapshot)
         [] order.type = "STOP_LIMIT" -> validateStopLimitCase(order, position, snapshot)
         [] OTHER -> NoVerdict

validateOrderWrites_reserving(order, position, snapshot, verdict) ==
  [order |-> order,
   pos |-> IF verdict = Valid /\ order.effect = "OPEN_LONG" /\ order.type = "LIMIT"
           THEN [position EXCEPT !.cash = RSub(@, RMul(order.price, order.quantity))]
           ELSE position,
   snapshot |-> snapshot]

\* what the call leaves in its three arguments: no statement of the validator assigns to
\* a field of any of them
validateOrderWrites(order, position, snapshot, verdict) ==
  [order |-> order, pos |-> position, snapshot |-> snapshot]

\* a call of validateOrder: the arguments after it, the verdict, and whether it threw
validateOrder(order, position, snapshot) ==
  LET returned(after, verdict) ==
        [pos |-> after.pos, order |-> after.order, snapshot |-> after.snapshot,
         ret |-> verdict, threw |-> FALSE]
      judged(verdict) ==
        returned(validateOrderWrites(order, position, snapshot, verdict), verdict)
  IN judged(validateOrderVerdict(order, position, snapshot))

(***************************************************************************)
(* Appraisal (market.utils.ts): the value of a Position at the prices of a *)
(* snapshot, cash plus the long quantities less the short quantities, a    *)
(* symbol the snapshot does not price being worth 0.                       *)
(***************************************************************************)
\* snapshot.price.get(symbol) ?? 0
priceOrZero(snapshot, symbol) ==
  LET price == MapGet(snapshot.price, symbol)
  IN IF price = Undefined THEN Zero ELSE price

\* the Map's keys in the order its entries were inserted, which is the order a for-of
\* loop visits them; a model map keeps no such order, so the callers give it
KeyOrders(map) ==
  {keys \in [1..Cardinality(DOMAIN map) -> DOMAIN map] :
     \A i, j \in DOMAIN keys : i # j => keys[i] # keys[j]}

\* one loop over the entries of a side: total += (or -=) quantity * price, entry by entry
RECURSIVE appraiseSide(_, _, _, _, _)
appraiseSide(total, side, keys, snapshot, sign) ==
  IF keys = <<>> THEN total
  ELSE LET value == RMul(side[Head(keys)].quantity, priceOrZero(snapshot, Head(keys)))
       IN appraiseSide(IF sign = 1 THEN RAdd(total, value) ELSE RSub(total, value),
                       side, Tail(keys), snapshot, sign)

appraisePosition(position, snapshot, longKeys, shortKeys) ==
  appraiseSide(appraiseSide(position.cash, position.long, longKeys, snapshot, 1),
               position.short, shortKeys, snapshot, -1)

(***************************************************************************)
(* The state machine: a caller holding one Position and calling the        *)
(* library on it, one call per step.  last records the call just made:     *)
(* its name and arguments, the Position before it, and its outcome.        *)
(* steps counts the trades and actions submitted so far (a batch of fills  *)
(* counts one per fill); it is the clock and the source of lot identities. *)
(* account tells which account object the caller holds: a Position, which  *)
(* the position trades, the chain actions, the fills and the order         *)
(* validator take, or a Portfolio of one currency, which the portfolio     *)
(* trades, the cash functions and the stock actions take.                  *)
(* accepted holds the orders the validator has accepted for a caller who   *)
(* places orders and fills them later, each with the Position it was       *)
(* accepted against.                                                       *)
(***************************************************************************)
Call(op, args, res, n) ==
  /\ steps + n <= MaxSteps
  /\ pos' = res.pos
  /\ last' = [op |-> op, args |-> args, pre |-> pos, ret |-> res.ret, threw |-> res.threw]
  /\ steps' = steps + n
  /\ UNCHANGED <<accepted, account>>

\* the two account objects of the library
Accounts == {"Position", "Portfolio"}

Now == steps + 1
NewId == steps

TradeArgs(symbol, t, strat) ==
  [symbol |-> symbol, price |-> R(t[1]), quantity |-> R(t[2]), commission |-> R(t[3]),
   strat |-> strat]

\* the account the caller starts from
createTestAccount(acct) ==
  IF acct = "Portfolio" THEN createTestPortfolio(StartCash) ELSE createTestPosition(StartCash)

Init ==
  /\ account \in Accounts
  /\ pos = createTestAccount(account)
  /\ last = [op |-> "none", args |-> <<>>, pre |-> createTestAccount(account),
             ret |-> Undefined, threw |-> FALSE]
  /\ steps = 0
  /\ accepted = {}

OpenLong ==
  \E symbol \in Symbols, t \in Trades :
    Call("openLong", TradeArgs(symbol, t, "FIFO"),
         openLongOn(account, pos, symbol, R(t[1]), R(t[2]), R(t[3]), Now, NewId), 1)

CloseLong ==
  \E symbol \in Symbols, t \in Trades, strat \in Strategies :
    Call("closeLong", TradeArgs(symbol, t, strat),
         closeLongOn(account, pos, symbol, R(t[1]), R(t[2]), R(t[3]), strat, Now), 1)

OpenShort ==
  \E symbol \in Symbols, t \in Trades :
    Call("openShort", TradeArgs(symbol, t, "FIFO"),
         openShortOn(account, pos, symbol, R(t[1]), R(t[2]), R(t[3]), Now, NewId), 1)

CloseShort ==
  \E symbol \in Symbols, t \in Trades, strat \in Strategies :
    Call("closeShort", TradeArgs(symbol, t, strat),
         closeShortOn(account, pos, symbol, R(t[1]), R(t[2]), R(t[3]), strat, Now), 1)

\* ratios of splits and mergers; the other actions take one ratio each
Ratios == {R(2), Q(1, 2)}
SpinoffRatio == Q(1, 2)
ForkRatio == R(2)
SwapRatio == Q(1, 2)
CashComponents == {Zero, One}
TaxRates == {Zero, Q(1, 2)}
RewardRates == {Zero, Q(1, 2)}
FixedAirdrop == R(3)
OtherSymbol(symbol) == CHOOSE s \in Symbols : s # symbol

Split ==
  /\ account = "Portfolio"
  /\ \E symbol \in Symbols, ratio \in Ratios :
    Call("handleSplit", [symbol |-> symbol, ratio |-> ratio],
         handleSplit(pos, symbol, ratio, Now), 1)

CashDividend ==
  /\ account = "Portfolio"
  /\ \E symbol \in Symbols, taxRate \in TaxRates :
    Call("handleCashDividend", [symbol |-> symbol, amountPerShare |-> One, taxRate |-> taxRate],
         handleCashDividend(pos, symbol, One, taxRate, Now), 1)

Spinoff ==
  /\ account = "Portfolio"
  /\ \E symbol \in Symbols :
    Call("handleSpinoff",
         [symbol |-> symbol, newSymbol |-> OtherSymbol(symbol), ratio |-> SpinoffRatio],
         handleSpinoff(pos, symbol, OtherSymbol(symbol), SpinoffRatio, Now, NewId), 1)

Merger ==
  /\ account = "Portfolio"
  /\ \E symbol \in Symbols, cashComponent \in CashComponents :
    Call("handleMerger",
         [symbol |-> symbol, newSymbol |-> OtherSymbol(symbol), ratio |-> R(2),
          cashComponent |-> cashComponent],
         handleMerger(pos, symbol, OtherSymbol(symbol), R(2), cashComponent, Now, NewId), 1)

HardFork ==
  /\ account = "Position"
  /\ \E symbol \in Symbols :
    Call("handleHardFork",
         [symbol |-> symbol, newSymbol |-> OtherSymbol(symbol), ratio |-> ForkRatio],
         handleHardFork(pos, symbol, OtherSymbol(symbol), ForkRatio, Now, NewId), 1)

Airdrop ==
  /\ account = "Position"
  /\ \E holderSymbol \in {Holder(s) : s \in Symbols} \cup {NoSymbol}, airdropSymbol \in Symbols :
    /\ holderSymbol # Holder(airdropSymbol)
    \* the fixed-amount airdrop is tried for one symbol, the proportional one for both
    /\ holderSymbol = NoSymbol => airdropSymbol = "A"
    /\ LET amountPerToken == IF holderSymbol = NoSymbol THEN Zero ELSE One
           fixedAmount == IF holderSymbol = NoSymbol THEN FixedAirdrop ELSE Zero
       IN Call("handleAirdrop",
               [holderSymbol |-> holderSymbol, airdropSymbol |-> airdropSymbol,
                amountPerToken |-> amountPerToken, fixedAmount |-> fixedAmount],
               handleAirdrop(pos, holderSymbol, airdropSymbol, amountPerToken, fixedAmount,
                             Now, NewId), 1)

TokenSwap ==
  /\ account = "Position"
  /\ \E symbol \in Symbols :
    Call("handleTokenSwap",
         [symbol |-> symbol, newSymbol |-> OtherSymbol(symbol), ratio |-> SwapRatio],
         handleTokenSwap(pos, symbol, OtherSymbol(symbol), SwapRatio, Now, NewId), 1)

StakingReward ==
  /\ account = "Position"
  /\ \E symbol \in Symbols, rewardPerToken \in RewardRates :
    Call("handleStakingReward", [symbol |-> symbol, rewardPerToken |-> rewardPerToken],
         handleStakingReward(pos, symbol, rewardPerToken, Now, NewId), 1)

\* cash paid into and taken out of the Portfolio, in its assets' currency and in another
CashAmounts == {R(5)}
Currencies == {Currency, "EUR"}

Deposit ==
  /\ account = "Portfolio"
  /\ \E currency \in Currencies, amount \in CashAmounts :
       Call("deposit", [currency |-> currency, amount |-> amount],
            deposit(pos, currency, amount), 1)

Withdraw ==
  /\ account = "Portfolio"
  /\ \E currency \in Currencies, amount \in CashAmounts :
       Call("withdraw", [currency |-> currency, amount |-> amount],
            withdraw(pos, currency, amount), 1)

Next ==
  \/ OpenLong \/ CloseLong \/ OpenShort \/ CloseShort
  \/ Deposit \/ Withdraw
  \/ Split \/ CashDividend \/ Spinoff \/ Merger
  \/ HardFork \/ Airdrop \/ TokenSwap \/ StakingReward

Spec == Init /\ [][Next]_vars

(***************************************************************************)
(* The same caller applying executed fills, singly or in batches.          *)
(***************************************************************************)
Effects == {"OPEN_LONG", "CLOSE_LONG", "OPEN_SHORT", "CLOSE_SHORT"}

Fills ==
  {[symbol |-> "A", effect |-> e, price |-> R(t[1]), quantity |-> R(t[2]),
    commission |-> R(t[3])] : e \in Effects, t \in Trades}

Batches(n) == UNION {[1..k -> Fills] : k \in 0..n}

ApplyFill ==
  /\ account = "Position"
  /\ \E fill \in Fills, closeStrategy \in Strategies :
    Call("applyFill", [fill |-> fill, closeStrategy |-> closeStrategy],
         applyFill(pos, fill, closeStrategy, Now, NewId), 1)

ApplyFills ==
  /\ account = "Position"
  /\ \E fills \in Batches(MaxSteps - steps), closeStrategy \in Strategies :
    Call("applyFills", [fills |-> fills, closeStrategy |-> closeStrategy],
         applyFills(pos, fills, closeStrategy, Now), Len(fills))

NextFills == ApplyFill \/ ApplyFills

SpecFills == Init /\ [][NextFills]_vars

(***************************************************************************)
(* The same caller opening positions and asking the validator about orders *)
(* on symbol "A" against a price snapshot.  An order carries the price      *)
(* fields of its type; the snapshot always prices "B" and may price "A".    *)
(***************************************************************************)
OrderTypes == {"MARKET", "LIMIT", "STOP", "STOP_LIMIT"}
OrderQuantities == {R(-1), Zero, R(2), R(3)}
OrderPrices == {Undefined, Zero, R(50)}
StopPrices == {Undefined, Zero, R(49), R(50)}
SnapshotPrices == {Zero, R(49), R(50)}

PricesOf(type) == IF type \in {"LIMIT", "STOP_LIMIT"} THEN OrderPrices ELSE {Undefined}
StopPricesOf(type) == IF type \in {"STOP", "STOP_LIMIT"} THEN StopPrices ELSE {Undefined}

Orders ==
  UNION {
    {[symbol |-> "A", type |-> type, effect |-> effect, quantity |-> quantity,
      price |-> price, stopPrice |-> stopPrice] :
       effect \in Effects, quantity \in OrderQuantities,
       price \in PricesOf(type), stopPrice \in StopPricesOf(type)} :
    type \in OrderTypes}

Snapshots ==
  {[price |-> MapSet(EmptyMap, "B", One)]}
    \cup {[price |-> MapSet(MapSet(EmptyMap, "B", One), "A", x)] : x \in SnapshotPrices}

ValidateOrder ==
  /\ account = "Position"
  /\ \E order \in Orders, snapshot \in Snapshots :
    LET validated(res) ==
          /\ steps + 1 <= MaxSteps
          \* one verdict is asked per state of the Position before the caller moves on
          /\ last.op # "validateOrder"
          /\ pos' = res.pos
          /\ last' = [op |-> "validateOrder",
                      args |-> [order |-> order, snapshot |-> snapshot],
                      pre |-> pos, ret |-> res.ret, threw |-> res.threw,
                      post |-> [order |-> res.order, snapshot |-> res.snapshot]]
          /\ steps' = steps + 1
          /\ UNCHANGED <<accepted, account>>
    IN validated(validateOrder(order, pos, snapshot))

\* the trade by which this caller builds its holdings, two units at a time
HoldingTrade == <<3, 2, 1>>

HoldLong ==
  \E symbol \in Symbols :
    Call("openLong", TradeArgs(symbol, HoldingTrade, "FIFO"),
         openLongOn(account, pos, symbol, R(HoldingTrade[1]), R(HoldingTrade[2]),
                    R(HoldingTrade[3]), Now, NewId), 1)

HoldShort ==
  \E symbol \in Symbols :
    Call("openShort", TradeArgs(symbol, HoldingTrade, "FIFO"),
         openShortOn(account, pos, symbol, R(HoldingTrade[1]), R(HoldingTrade[2]),
                     R(HoldingTrade[3]), Now, NewId), 1)

NextOrders == HoldLong \/ HoldShort \/ ValidateOrder

SpecOrders == Init /\ [][NextOrders]_vars

(***************************************************************************)
(* The same caller building holdings and calling the corporate and chain   *)
(* actions on symbol "A" with a parameter outside its documented range.     *)
(***************************************************************************)
InvalidRatios == {Zero, R(-1)}
\* <<amountPerShare, taxRate>> with one of the two out of range
InvalidDividends == {<<R(-1), Zero>>, <<One, R(-1)>>, <<One, R(2)>>}
\* <<holderSymbol, amountPerToken, fixedAmount>> with a negative amount
InvalidAirdrops == {<<Holder("A"), R(-1), Zero>>, <<NoSymbol, R(-1), FixedAirdrop>>,
                    <<NoSymbol, Zero, R(-1)>>, <<Holder(""), Zero, R(-1)>>,
                    <<Holder("A"), Zero, R(-1)>>, <<Holder("A"), One, R(-1)>>}
InvalidReward == R(-1)

InvalidSplit ==
  /\ account = "Portfolio"
  /\ \E ratio \in InvalidRatios :
    Call("handleSplit", [symbol |-> "A", ratio |-> ratio],
         handleSplit(pos, "A", ratio, Now), 1)

InvalidCashDividend ==
  /\ account = "Portfolio"
  /\ \E d \in InvalidDividends :
    Call("handleCashDividend", [symbol |-> "A", amountPerShare |-> d[1], taxRate |-> d[2]],
         handleCashDividend(pos, "A", d[1], d[2], Now), 1)

InvalidMerger ==
  /\ account = "Portfolio"
  /\ \E ratio \in InvalidRatios :
    Call("handleMerger",
         [symbol |-> "A", newSymbol |-> "B", ratio |-> ratio, cashComponent |-> One],
         handleMerger(pos, "A", "B", ratio, One, Now, NewId), 1)

InvalidHardFork ==
  /\ account = "Position"
  /\ \E ratio \in InvalidRatios :
    Call("handleHardFork", [symbol |-> "A", newSymbol |-> "B", ratio |-> ratio],
         handleHardFork(pos, "A", "B", ratio, Now, NewId), 1)

InvalidAirdrop ==
  /\ account = "Position"
  /\ \E a \in InvalidAirdrops :
    Call("handleAirdrop",
         [holderSymbol |-> a[1], airdropSymbol |-> "B", amountPerToken |-> a[2],
          fixedAmount |-> a[3]],
         handleAirdrop(pos, a[1], "B", a[2], a[3], Now, NewId), 1)

InvalidTokenSwap ==
  /\ account = "Position"
  /\ \E ratio \in InvalidRatios :
    Call("handleTokenSwap", [symbol |-> "A", newSymbol |-> "B", ratio |-> ratio],
         handleTokenSwap(pos, "A", "B", ratio, Now, NewId), 1)

InvalidStakingReward ==
  /\ account = "Position"
  /\ Call("handleStakingReward", [symbol |-> "A", rewardPerToken |-> InvalidReward],
       handleStakingReward(pos, "A", InvalidReward, Now, NewId), 1)

NextInvalid ==
  \/ HoldLong \/ HoldShort
  \/ InvalidSplit \/ InvalidCashDividend \/ InvalidMerger
  \/ InvalidHardFork \/ InvalidAirdrop \/ InvalidTokenSwap \/ InvalidStakingReward

SpecInvalid == Init /\ [][NextInvalid]_vars

(***************************************************************************)
(* The same caller building holdings and calling handleAirdrop with every  *)
(* combination of holder symbol, per-token amount and fixed amount.         *)
(***************************************************************************)
AirdropHolders == {Holder("A"), NoSymbol, Holder(""), Holder("null")}
AirdropAmounts == {R(-1), Zero, One}
AirdropFixedAmounts == {R(-1), Zero, FixedAirdrop}

AirdropCall ==
  /\ account = "Position"
  /\ \E holderSymbol \in AirdropHolders, amountPerToken \in AirdropAmounts,
     fixedAmount \in AirdropFixedAmounts :
    Call("handleAirdrop",
         [holderSymbol |-> holderSymbol, airdropSymbol |-> "B",
          amountPerToken |-> amountPerToken, fixedAmount |-> fixedAmount],
         handleAirdrop(pos, holderSymbol, "B", amountPerToken, fixedAmount, Now, NewId), 1)

NextAirdrop == HoldLong \/ HoldShort \/ AirdropCall

SpecAirdrop == Init /\ [][NextAirdrop]_vars

(***************************************************************************)
(* The same caller trading one symbol, with lots whose prices differ while *)
(* their cost per unit, commission included, may or may not.               *)
(***************************************************************************)
LotTrades == {<<2, 1, 1>>, <<3, 1, 0>>, <<4, 1, 1>>, <<3, 2, 1>>, <<2, 3, 0>>}

LotOpenLong ==
  \E t \in LotTrades :
    Call("openLong", TradeArgs("A", t, "FIFO"),
         openLongOn(account, pos, "A", R(t[1]), R(t[2]), R(t[3]), Now, NewId), 1)

LotCloseLong ==
  \E t \in LotTrades, strat \in Strategies :
    Call("closeLong", TradeArgs("A", t, strat),
         closeLongOn(account, pos, "A", R(t[1]), R(t[2]), R(t[3]), strat, Now), 1)

LotOpenShort ==
  \E t \in LotTrades :
    Call("openShort", TradeArgs("A", t, "FIFO"),
         openShortOn(account, pos, "A", R(t[1]), R(t[2]), R(t[3]), Now, NewId), 1)

LotCloseShort ==
  \E t \in LotTrades, strat \in Strategies :
    Call("closeShort", TradeArgs("A", t, strat),
         closeShortOn(account, pos, "A", R(t[1]), R(t[2]), R(t[3]), strat, Now), 1)

NextLots == LotOpenLong \/ LotCloseLong \/ LotOpenShort \/ LotCloseShort

SpecLots == Init /\ [][NextLots]_vars

(***************************************************************************)
(* The same caller opening a block of three units of one symbol and        *)
(* closing it unit by unit at a gain or at a loss, with the corporate and  *)
(* chain actions in between.                                               *)
(***************************************************************************)
BlockTrade == <<2, 3, 0>>
UnitTrades == {<<1, 1, 0>>, <<3, 1, 0>>}

BlockOpenLong ==
  Call("openLong", TradeArgs("A", BlockTrade, "FIFO"),
       openLongOn(account, pos, "A", R(BlockTrade[1]), R(BlockTrade[2]), R(BlockTrade[3]),
                  Now, NewId), 1)

BlockCloseLong ==
  \E t \in UnitTrades, strat \in Strategies :
    Call("closeLong", TradeArgs("A", t, strat),
         closeLongOn(account, pos, "A", R(t[1]), R(t[2]), R(t[3]), strat, Now), 1)

BlockOpenShort ==
  Call("openShort", TradeArgs("A", BlockTrade, "FIFO"),
       openShortOn(account, pos, "A", R(BlockTrade[1]), R(BlockTrade[2]), R(BlockTrade[3]),
                   Now, NewId), 1)

BlockCloseShort ==
  \E t \in UnitTrades, strat \in Strategies :
    Call("closeShort", TradeArgs("A", t, strat),
         closeShortOn(account, pos, "A", R(t[1]), R(t[2]), R(t[3]), strat, Now), 1)

NextBlock ==
  \/ BlockOpenLong \/ BlockCloseLong \/ BlockOpenShort \/ BlockCloseShort
  \/ Split \/ CashDividend \/ Spinoff \/ Merger
  \/ HardFork \/ Airdrop \/ TokenSwap \/ StakingReward

SpecBlock == Init /\ [][NextBlock]_vars

(***************************************************************************)
(* The same caller placing orders on symbol "A": an order the validator    *)
(* accepts is kept, with the Position it was accepted against, and filled  *)
(* later at its reference price, with or without a commission.             *)
(***************************************************************************)
PlacePrice == R(50)
PlaceSnapshot == [price |-> MapSet(MapSet(EmptyMap, "B", One), "A", PlacePrice)]

MarketOrder(effect, quantity) ==
  [symbol |-> "A", type |-> "MARKET", effect |-> effect, quantity |-> quantity,
   price |-> Undefined, stopPrice |-> Undefined]

PlaceOrders ==
  {MarketOrder("OPEN_LONG", R(2)), MarketOrder("OPEN_SHORT", R(2)),
   MarketOrder("CLOSE_LONG", One), MarketOrder("CLOSE_LONG", R(2)),
   [symbol |-> "A", type |-> "LIMIT", effect |-> "CLOSE_SHORT", quantity |-> R(2),
    price |-> PlacePrice, stopPrice |-> Undefined],
   [symbol |-> "A", type |-> "STOP", effect |-> "CLOSE_LONG", quantity |-> R(2),
    price |-> Undefined, stopPrice |-> R(49)]}

FillCommissions == {Zero, One}

\* the price a MARKET or LIMIT order's effect check is given; a STOP or STOP_LIMIT order
\* is checked for the direction of its stopPrice only, at no price
ReferencePrice(order, snapshot) ==
  CASE order.type = "MARKET" -> MapGet(snapshot.price, order.symbol)
    [] order.type = "LIMIT" -> order.price
    [] OTHER -> Undefined

\* the Fill the caller hands to applyFill: a MARKET or LIMIT order at its reference
\* price, a stop order at its trigger price
FillOf(order, snapshot, commission) ==
  [symbol |-> order.symbol, effect |-> order.effect,
   price |-> IF order.type \in {"MARKET", "LIMIT"} THEN ReferencePrice(order, snapshot)
             ELSE order.stopPrice,
   quantity |-> order.quantity, commission |-> commission]

PlaceOrder ==
  /\ account = "Position"
  /\ \E order \in PlaceOrders :
    LET placed(res) ==
          /\ \A a \in accepted : a.order # order
          /\ Cardinality(accepted) < MaxWorking
          \* a rejected order is dropped: the caller goes on from the accepted ones
          /\ res.ret = Valid
          /\ pos' = res.pos
          /\ last' = [op |-> "validateOrder",
                      args |-> [order |-> order, snapshot |-> PlaceSnapshot],
                      pre |-> pos, ret |-> res.ret, threw |-> res.threw,
                      post |-> [order |-> res.order, snapshot |-> res.snapshot]]
          /\ accepted' = accepted \cup {[order |-> order, at |-> pos]}
          /\ UNCHANGED <<steps, account>>
    IN placed(validateOrder(order, pos, PlaceSnapshot))

FillOrder ==
  /\ account = "Position"
  /\ \E a \in accepted, commission \in FillCommissions :
    LET filled(fill, res) ==
          /\ steps + 1 <= MaxSteps
          /\ pos' = res.pos
          /\ last' = [op |-> "applyFill",
                      args |-> [fill |-> fill, closeStrategy |-> "FIFO", order |-> a.order,
                                at |-> a.at],
                      pre |-> pos, ret |-> res.ret, threw |-> res.threw]
          /\ accepted' = accepted \ {a}
          /\ UNCHANGED account
          /\ steps' = steps + 1
        executed(fill) == filled(fill, applyFill(pos, fill, "FIFO", Now, NewId))
    IN executed(FillOf(a.order, PlaceSnapshot, commission))

NextPlace == PlaceOrder \/ FillOrder

SpecPlace == Init /\ [][NextPlace]_vars

(***************************************************************************)
(* The same caller trading one symbol in tenths, amounts a double does not *)
(* hold exactly, at price 1 and no commission, with a split in between and *)
(* closes of the whole quantity a position holds; it makes one call more   *)
(* than the others.                                                        *)
(***************************************************************************)
DecimalQuantities == {Q(1, 10), Q(3, 10), Q(9, 10)}
DecimalRatio == Q(1, 10)
DecimalSteps == MaxSteps + 1

DecimalArgs(quantity, strat) ==
  [symbol |-> "A", price |-> One, quantity |-> quantity, commission |-> Zero, strat |-> strat]

DecimalCall(op, args, res) ==
  /\ steps < DecimalSteps
  /\ pos' = res.pos
  /\ last' = [op |-> op, args |-> args, pre |-> pos, ret |-> res.ret, threw |-> res.threw]
  /\ steps' = steps + 1
  /\ UNCHANGED <<accepted, account>>

DecimalOpenLong ==
  \E quantity \in DecimalQuantities :
    DecimalCall("openLong", DecimalArgs(quantity, "FIFO"),
                openLongOn(account, pos, "A", One, quantity, Zero, Now, NewId))

DecimalCloseLong ==
  \E quantity \in DecimalQuantities, strat \in Strategies :
    DecimalCall("closeLong", DecimalArgs(quantity, strat),
                closeLongOn(account, pos, "A", One, quantity, Zero, strat, Now))

DecimalOpenShort ==
  \E quantity \in DecimalQuantities :
    DecimalCall("openShort", DecimalArgs(quantity, "FIFO"),
                openShortOn(account, pos, "A", One, quantity, Zero, Now, NewId))

DecimalCloseShort ==
  \E quantity \in DecimalQuantities, strat \in Strategies :
    DecimalCall("closeShort", DecimalArgs(quantity, strat),
                closeShortOn(account, pos, "A", One, quantity, Zero, strat, Now))

DecimalSplit ==
  /\ account = "Portfolio"
  /\ DecimalCall("handleSplit", [symbol |-> "A", ratio |-> DecimalRatio],
                 handleSplit(pos, "A", DecimalRatio, Now))

DecimalCloseOutLong ==
  /\ "A" \in DOMAIN pos.long
  /\ \E strat \in Strategies :
       LET quantity == pos.long["A"].quantity
       IN DecimalCall("closeLong", DecimalArgs(quantity, strat),
                      closeLongOn(account, pos, "A", One, quantity, Zero, strat, Now))

DecimalCloseOutShort ==
  /\ "A" \in DOMAIN pos.short
  /\ \E strat \in Strategies :
       LET quantity == pos.short["A"].quantity
       IN DecimalCall("closeShort", DecimalArgs(quantity, strat),
                      closeShortOn(account, pos, "A", One, quantity, Zero, strat, Now))

NextDecimal ==
  \/ DecimalOpenLong \/ DecimalCloseLong \/ DecimalOpenShort \/ DecimalCloseShort
  \/ DecimalSplit \/ DecimalCloseOutLong \/ DecimalCloseOutShort

SpecDecimal == Init /\ [][NextDecimal]_vars

(***************************************************************************)
(* The same caller buying in tenths at price 1 and placing MARKET orders   *)
(* to sell, each filled at that price, without commission, as soon as the  *)
(* validator has accepted it.                                              *)
(***************************************************************************)
DecimalSnapshot == [price |-> MapSet(EmptyMap, "A", One)]
DecimalOrders == {MarketOrder("CLOSE_LONG", quantity) : quantity \in DecimalQuantities}

DecimalPlaceOrder ==
  /\ account = "Position"
  /\ \E order \in DecimalOrders :
    LET placed(res) ==
          /\ accepted = {}
          /\ res.ret = Valid
          /\ pos' = res.pos
          /\ last' = [op |-> "validateOrder",
                      args |-> [order |-> order, snapshot |-> DecimalSnapshot],
                      pre |-> pos, ret |-> res.ret, threw |-> res.threw,
                      post |-> [order |-> res.order, snapshot |-> res.snapshot]]
          /\ accepted' = {[order |-> order, at |-> pos]}
          /\ UNCHANGED <<steps, account>>
    IN placed(validateOrder(order, pos, DecimalSnapshot))

DecimalFillOrder ==
  /\ account = "Position"
  /\ \E a \in accepted, strat \in Strategies :
    LET filled(fill, res) ==
          /\ steps < DecimalSteps
          /\ pos' = res.pos
          /\ last' = [op |-> "applyFill",
                      args |-> [fill |-> fill, closeStrategy |-> strat, order |-> a.order,
                                at |-> a.at],
                      pre |-> pos, ret |-> res.ret, threw |-> res.threw]
          /\ accepted' = accepted \ {a}
          /\ UNCHANGED account
          /\ steps' = steps + 1
        executed(fill) == filled(fill, applyFill(pos, fill, strat, Now, NewId))
    IN executed(FillOf(a.order, DecimalSnapshot, Zero))

NextDecimalPlace == DecimalOpenLong \/ DecimalPlaceOrder \/ DecimalFillOrder

SpecDecimalPlace == Init /\ [][NextDecimalPlace]_vars

(***************************************************************************)
(* Properties.                                                             *)
(***************************************************************************)
LongSymbols(p) == DOMAIN p.long
ShortSymbols(p) == DOMAIN p.short

QuantitiesOf(lots) == [i \in DOMAIN lots |-> lots[i].quantity]
CostsOf(lots) == [i \in DOMAIN lots |-> lots[i].totalCost]
ProceedsOf(lots) == [i \in DOMAIN lots |-> lots[i].totalProceeds]
IdsOf(lots) == [i \in DOMAIN lots |-> lots[i].id]
IdSet(lots) == {lots[i].id : i \in DOMAIN lots}

\* the realisedPnL of the account: the Position's field, the entry of the Portfolio's map
\* as the library reads it
RealisedOf(p) == orZero(p.realisedPnL)

LotsMatch(p) ==
  /\ \A s \in LongSymbols(p) :
       /\ StrictEq(SumSeq(QuantitiesOf(p.long[s].lots)), p.long[s].quantity)
       /\ StrictEq(SumSeq(CostsOf(p.long[s].lots)), p.long[s].totalCost)
  /\ \A s \in ShortSymbols(p) :
       /\ StrictEq(SumSeq(QuantitiesOf(p.short[s].lots)), p.short[s].quantity)
       /\ StrictEq(SumSeq(ProceedsOf(p.short[s].lots)), p.short[s].totalProceeds)

TradeOps == {"openLong", "closeLong", "openShort", "closeShort"}
CloseOps == {"closeLong", "closeShort"}
ActionOps == {"handleSplit", "handleCashDividend", "handleSpinoff", "handleMerger",
              "handleHardFork", "handleAirdrop", "handleTokenSwap", "handleStakingReward"}

\* the lots of the symbol on the side a trade call works on, <<>> when it has no position
SideLots(p, op, symbol) ==
  IF op \in {"openLong", "closeLong"}
  THEN IF symbol \in LongSymbols(p) THEN p.long[symbol].lots ELSE <<>>
  ELSE IF symbol \in ShortSymbols(p) THEN p.short[symbol].lots ELSE <<>>

\* the basis (totalCost or totalProceeds) of a lot of that side
BasisOf(op, lot) == IF op \in {"openLong", "closeLong"} THEN lot.totalCost ELSE lot.totalProceeds

\* quantity left of the lot with that identity in a lot list, 0 when it is gone
QuantityLeft(lots, id) ==
  IF id \in IdSet(lots)
  THEN (CHOOSE l \in {lots[i] : i \in DOMAIN lots} : l.id = id).quantity
  ELSE Zero

\* C1: along sequences of openLong, closeLong, openShort and closeShort calls, every
\* position in a map has quantity and totalCost (totalProceeds) equal to the sums over
\* its lots.
C1_Conservation == LotsMatch(pos)

\* C2: every position present in the long or short map has quantity >= 0 and at least
\* one lot; a position left without lots is gone from its map after that same call.
C2_NoEmptyPosition ==
  /\ \A s \in LongSymbols(pos) :
       RLe(Zero, pos.long[s].quantity) /\ Len(pos.long[s].lots) >= 1
  /\ \A s \in ShortSymbols(pos) :
       RLe(Zero, pos.short[s].quantity) /\ Len(pos.short[s].lots) >= 1

\* C3: a close reduces a lot only if every lot before it (FIFO) or after it (LIFO) in
\* the list was fully consumed by that close.
C3_StrategyOrder ==
  (last.op \in CloseOps /\ ~last.threw) =>
    LET before == SideLots(last.pre, last.op, last.args.symbol)
        after == SideLots(pos, last.op, last.args.symbol)
        Reduced(i) == RLt(QuantityLeft(after, before[i].id), before[i].quantity)
        Consumed(i) == QuantityLeft(after, before[i].id) = Zero
    IN \A i \in DOMAIN before :
         Reduced(i) =>
           \A j \in DOMAIN before :
             (IF last.args.strat = "FIFO" THEN j < i ELSE j > i) => Consumed(j)

C3_Witness ==
  /\ last.op = "closeLong"
  /\ ~last.threw
  /\ last.args.strat = "LIFO"
  /\ LET before == SideLots(last.pre, last.op, last.args.symbol)
         after == SideLots(pos, last.op, last.args.symbol)
     IN /\ Len(before) = 2
        /\ Len(after) = 1
        /\ after[1].id = before[1].id
        /\ RLt(after[1].quantity, before[1].quantity)

\* the lots of a close in the order its strategy takes them
TakenOrder(lots, strat) ==
  IF strat = "FIFO" THEN lots ELSE [i \in DOMAIN lots |-> lots[Len(lots) + 1 - i]]

\* the quantity still to be closed when a close of quantity reaches the i-th lot of
\* that order; at Len(lots) + 1, what it could not take from any lot
RECURSIVE StillToClose(_, _, _)
StillToClose(lots, quantity, i) ==
  IF i = 1 THEN quantity
  ELSE LET remainingQty == StillToClose(lots, quantity, i - 1)
       IN IF RLe(remainingQty, Zero) THEN remainingQty
          ELSE RSub(remainingQty, RMin(lots[i - 1].quantity, remainingQty))

\* what the close takes from that lot: all of it, or what is still to be closed
TakenFrom(lots, quantity, i) ==
  LET remainingQty == StillToClose(lots, quantity, i)
  IN IF RLe(remainingQty, Zero) THEN Zero ELSE RMin(lots[i].quantity, remainingQty)

\* the lots after the call are the lots before it less what a close of quantity takes
LotsTaken(before, after, quantity) ==
  /\ IdSet(after) \subseteq IdSet(before)
  /\ \A i \in DOMAIN before :
       QuantityLeft(after, before[i].id) =
         RSub(before[i].quantity, TakenFrom(before, quantity, i))

\* C4: closeLong returns (price x quantity - commission) - cost consumed and closeShort
\* returns proceeds consumed - (price x quantity + commission), the amount consumed
\* from a lot being its stored total when the lot is used up and total / quantity x
\* closed quantity when it is partly used.
ConsumedFrom(op, lot, after, closedQty) ==
  LET left == QuantityLeft(after, lot.id)
  IN IF left = Zero THEN BasisOf(op, lot)
     ELSE IF left = lot.quantity THEN Zero
     ELSE RMul(RDiv(BasisOf(op, lot), lot.quantity), closedQty)

C4_RealisedPnL ==
  (last.op \in CloseOps /\ ~last.threw) =>
    LET a == last.args
        before == TakenOrder(SideLots(last.pre, last.op, a.symbol), a.strat)
        after == SideLots(pos, last.op, a.symbol)
        consumed == SumSeq([i \in DOMAIN before |->
                      ConsumedFrom(last.op, before[i], after,
                                   StillToClose(before, a.quantity, i))])
    IN IF last.op = "closeLong"
       THEN last.ret = RSub(RSub(RMul(a.price, a.quantity), a.commission), consumed)
       ELSE last.ret = RSub(consumed, RAdd(RMul(a.price, a.quantity), a.commission))

C4_Witness ==
  /\ last.op = "closeShort"
  /\ ~last.threw
  /\ last.args.commission # Zero
  /\ LET before == SideLots(last.pre, last.op, last.args.symbol)
         after == SideLots(pos, last.op, last.args.symbol)
     IN /\ Len(before) = 2
        /\ Len(after) = 1
        /\ RLt(after[1].quantity, QuantityLeft(before, after[1].id))

\* C5: lots are only ever added at the tail of a lot list, and the lots that survive a
\* call keep their relative order.
OrderKept(before, after) ==
  LET kept == SelectSeq(IdsOf(before), LAMBDA id : id \in IdSet(after))
      added == SelectSeq(IdsOf(after), LAMBDA id : id \notin IdSet(before))
  IN IdsOf(after) = kept \o added

C5_LotOrder ==
  /\ \A s \in LongSymbols(last.pre) \cap LongSymbols(pos) :
       OrderKept(last.pre.long[s].lots, pos.long[s].lots)
  /\ \A s \in ShortSymbols(last.pre) \cap ShortSymbols(pos) :
       OrderKept(last.pre.short[s].lots, pos.short[s].lots)

C5_Witness ==
  /\ last.op = "closeLong"
  /\ ~last.threw
  /\ last.args.strat = "LIFO"
  /\ last.args.symbol \in LongSymbols(pos)
  /\ Len(pos.long[last.args.symbol].lots) = 2
  /\ pos.long[last.args.symbol].quantity # last.pre.long[last.args.symbol].quantity

\* C6: after every mutation each long position with quantity > 0 has averageCost =
\* totalCost / quantity and each short position with quantity > 0 has averageProceeds =
\* totalProceeds / quantity.
C6_AverageMatches ==
  /\ \A s \in LongSymbols(pos) :
       RLt(Zero, pos.long[s].quantity) =>
         pos.long[s].averageCost = RDiv(pos.long[s].totalCost, pos.long[s].quantity)
  /\ \A s \in ShortSymbols(pos) :
       RLt(Zero, pos.short[s].quantity) =>
         pos.short[s].averageProceeds = RDiv(pos.short[s].totalProceeds, pos.short[s].quantity)

\* C7: a corporate or chain action applied to a state whose positions match their lots
\* leaves every position present afterwards matching its lots.
C7_ActionsConserve ==
  (last.op \in ActionOps /\ LotsMatch(last.pre)) => LotsMatch(pos)

\* C8: a close for a symbol without a position on that side throws, and the Position
\* is then exactly as before the call.
C8_CloseNotFound ==
  (/\ last.op \in CloseOps
   /\ SideLots(last.pre, last.op, last.args.symbol) = <<>>)
    => (last.threw /\ pos = last.pre)

C8_Witness ==
  /\ last.op = "closeLong"
  /\ last.threw
  /\ last.args.commission # Zero
  /\ LongSymbols(last.pre) # {}
  /\ last.args.symbol \notin LongSymbols(last.pre)

\* C9: openLong appends one lot with totalCost = price x quantity + commission at the
\* tail of the symbol's long position, lowers cash by that amount and returns its
\* negation; openShort appends one lot with totalProceeds = price x quantity -
\* commission, raises cash by that amount and returns it.
C9_Open ==
  (last.op \in {"openLong", "openShort"}) =>
    LET a == last.args
        before == SideLots(last.pre, last.op, a.symbol)
        after == SideLots(pos, last.op, a.symbol)
        amount == IF last.op = "openLong"
                  THEN RAdd(RMul(a.price, a.quantity), a.commission)
                  ELSE RSub(RMul(a.price, a.quantity), a.commission)
    IN /\ ~last.threw
       /\ Len(after) = Len(before) + 1
       /\ SubSeq(after, 1, Len(before)) = before
       /\ after[Len(after)].quantity = a.quantity
       /\ BasisOf(last.op, after[Len(after)]) = amount
       /\ IF last.op = "openLong"
          THEN pos.cash = RSub(last.pre.cash, amount) /\ last.ret = RNeg(amount)
          ELSE pos.cash = RAdd(last.pre.cash, amount) /\ last.ret = amount

C9_Witness ==
  /\ last.op = "openLong"
  /\ last.args.commission # Zero
  /\ Len(SideLots(last.pre, last.op, last.args.symbol)) >= 1

\* C10: applyFills gives the Position and the totals that applying its fills one after
\* another with applyFill gives, each fill on the Position the previous one left, and
\* returns the input fills in their order.
RECURSIVE OneByOne(_, _, _, _, _)
OneByOne(p, fills, k, closeStrategy, time) ==
  IF k > Len(fills) THEN [pos |-> p, threw |-> FALSE, cashFlows |-> <<>>, pnls |-> <<>>]
  ELSE LET r == applyFill(p, fills[k], closeStrategy, time + k - 1, time + k - 2)
       IN IF r.threw THEN [pos |-> r.pos, threw |-> TRUE, cashFlows |-> <<>>, pnls |-> <<>>]
          ELSE LET rest == OneByOne(r.pos, fills, k + 1, closeStrategy, time)
               IN [pos |-> rest.pos, threw |-> rest.threw,
                   cashFlows |-> <<r.ret.cashFlow>> \o rest.cashFlows,
                   pnls |-> <<r.ret.realisedPnL>> \o rest.pnls]

C10_BatchIsSequence ==
  (last.op = "applyFills") =>
    LET one == OneByOne(last.pre, last.args.fills, 1, last.args.closeStrategy,
                        steps - Len(last.args.fills) + 1)
    IN /\ last.threw = one.threw
       /\ pos = one.pos
       /\ ~last.threw =>
            /\ last.ret.fills = last.args.fills
            /\ last.ret.cashFlow = SumSeq(one.cashFlows)
            /\ last.ret.realisedPnL = SumSeq(one.pnls)

C10_Witness ==
  /\ last.op = "applyFills"
  /\ ~last.threw
  /\ Len(last.args.fills) >= 2
  /\ last.args.fills[1].effect = "OPEN_LONG"
  /\ last.args.fills[2].effect = "CLOSE_LONG"
  /\ last.args.fills[1].price # last.args.fills[2].price

\* C11: when applyFills throws because one of its fills cannot be applied, the Position
\* is exactly as it was before the call.
C11_BatchAtomic ==
  (last.op = "applyFills" /\ last.threw) => pos = last.pre

FillOps == {"applyFill", "applyFills"}

\* the balance after the amounts of a list were added to it one after another
RECURSIVE AddAll(_, _)
AddAll(balance, amounts) ==
  IF amounts = <<>> THEN balance
  ELSE AddAll(RAdd(balance, Head(amounts)), Tail(amounts))

\* C12: the cashFlow an applyFill call reports is the change the call made to
\* Position.cash and the realisedPnL it reports is the change it made to
\* Position.realisedPnL, 0 for an OPEN fill; the totals an applyFills call reports are
\* the totals of the changes its fills made, one after another.
C12_ReportedIsChange ==
  (last.op \in FillOps /\ ~last.threw) =>
    IF last.op = "applyFill"
    THEN /\ pos.cash = RAdd(last.pre.cash, last.ret.cashFlow)
         /\ pos.realisedPnL = RAdd(last.pre.realisedPnL, last.ret.realisedPnL)
         /\ last.args.fill.effect \in {"OPEN_LONG", "OPEN_SHORT"} => last.ret.realisedPnL = Zero
    ELSE LET one == OneByOne(last.pre, last.args.fills, 1, last.args.closeStrategy,
                             steps - Len(last.args.fills) + 1)
         IN /\ pos.cash = AddAll(last.pre.cash, one.cashFlows)
            /\ pos.realisedPnL = AddAll(last.pre.realisedPnL, one.pnls)
            /\ last.ret.cashFlow = AddAll(Zero, one.cashFlows)
            /\ last.ret.realisedPnL = AddAll(Zero, one.pnls)

C12_Witness ==
  /\ last.op = "applyFills"
  /\ ~last.threw
  /\ Len(last.args.fills) = 2
  /\ last.args.fills[1].effect = "OPEN_SHORT"
  /\ last.args.fills[2].effect = "CLOSE_SHORT"
  /\ last.args.fills[2].commission # Zero
  /\ last.pre.short # EmptyMap
  /\ last.ret.realisedPnL # Zero
  /\ last.ret.cashFlow # Zero

ErrorTypes == {"INSUFFICIENT_CASH", "INSUFFICIENT_POSITION", "POSITION_NOT_FOUND",
               "INVALID_PRICE", "INVALID_QUANTITY", "INVALID_STOP_PRICE", "MISSING_PRICE",
               "MISSING_STOP_PRICE", "MARKET_DATA_MISSING", "INVALID_STOP_DIRECTION"}

Validated == last.op = "validateOrder"
StopTypes == {"STOP", "STOP_LIMIT"}
Rejected(verdict, type) == ~verdict.valid /\ verdict.error.type = type

\* C13: a validateOrder call leaves the order, the Position and the price snapshot
\* exactly as they were, whatever its verdict.
C13_ValidateWritesNothing ==
  Validated =>
    /\ pos = last.pre
    /\ last.post.order = last.args.order
    /\ last.post.snapshot = last.args.snapshot

C13_Witness ==
  /\ Validated
  /\ last.ret = Valid
  /\ last.args.order.type = "LIMIT"
  /\ last.args.order.effect = "OPEN_LONG"
  /\ last.pre.short # EmptyMap

\* C14: validateOrder never throws and always returns a verdict: either valid with no
\* error, or invalid with one error whose type is one of the ten error types.
C14_TypedVerdict ==
  Validated =>
    /\ ~last.threw
    /\ "valid" \in DOMAIN last.ret
    /\ IF last.ret.valid THEN DOMAIN last.ret = {"valid"}
       ELSE /\ DOMAIN last.ret = {"valid", "error"}
            /\ last.ret.error.type \in ErrorTypes

C14_Witness ==
  /\ Validated
  /\ last.args.order.type = "STOP_LIMIT"
  /\ last.args.order.stopPrice = Undefined
  /\ Rejected(last.ret, "MISSING_STOP_PRICE")

\* C15: an order with quantity <= 0 is rejected with InvalidQuantity carrying that
\* quantity, whatever its type, effect and price fields, the Position and the snapshot.
C15_QuantityFirst ==
  (Validated /\ RLe(last.args.order.quantity, Zero)) =>
    last.ret = Invalid([type |-> "INVALID_QUANTITY", value |-> last.args.order.quantity])

C15_Witness ==
  /\ Validated
  /\ last.args.order.quantity = Zero
  /\ last.args.order.type = "MARKET"
  /\ ~MapHas(last.args.snapshot.price, last.args.order.symbol)
  /\ last.pre.long # EmptyMap
  /\ Rejected(last.ret, "INVALID_QUANTITY")

\* the conditions of C16 on the Position for an order at a reference price
Admissible(order, position, price) ==
  CASE order.effect = "OPEN_LONG" -> RLe(RMul(price, order.quantity), position.cash)
    [] order.effect = "CLOSE_LONG" ->
         /\ order.symbol \in LongSymbols(position)
         /\ RLe(order.quantity, position.long[order.symbol].quantity)
    [] order.effect = "OPEN_SHORT" -> TRUE
    [] order.effect = "CLOSE_SHORT" ->
         /\ order.symbol \in ShortSymbols(position)
         /\ RLe(order.quantity, position.short[order.symbol].quantity)
         /\ RLe(RMul(price, order.quantity), position.cash)

\* a MARKET or LIMIT order with positive quantity and, for LIMIT, a present positive price
PlainOrder(order) ==
  /\ order.type \in {"MARKET", "LIMIT"}
  /\ RLt(Zero, order.quantity)
  /\ order.type = "LIMIT" => RLt(Zero, order.price)

\* C16 as stated: such an order is accepted exactly when the conditions hold at the
\* reference price, the snapshot price for MARKET (MarketDataMissing when the snapshot has
\* no price for the symbol) and order.price for LIMIT.
C16_AcceptedExactlyWhen ==
  (Validated /\ PlainOrder(last.args.order)) =>
    LET order == last.args.order
        prices == last.args.snapshot.price
    IN IF order.type = "MARKET" /\ ~MapHas(prices, order.symbol)
       THEN Rejected(last.ret, "MARKET_DATA_MISSING")
       ELSE last.ret.valid <=>
              Admissible(order, last.pre,
                         IF order.type = "MARKET" THEN prices[order.symbol] ELSE order.price)

\* C16 amended: the snapshot price of a MARKET order must be a number other than 0; an
\* absent price and a price of 0 both give MarketDataMissing.
C16_AcceptedExactlyWhenPriced ==
  (Validated /\ PlainOrder(last.args.order)) =>
    LET order == last.args.order
        prices == last.args.snapshot.price
    IN IF order.type = "MARKET" /\ (~MapHas(prices, order.symbol) \/ prices[order.symbol] = Zero)
       THEN Rejected(last.ret, "MARKET_DATA_MISSING")
       ELSE last.ret.valid <=>
              Admissible(order, last.pre,
                         IF order.type = "MARKET" THEN prices[order.symbol] ELSE order.price)

C16_Witness ==
  /\ Validated
  /\ last.args.order.type = "MARKET"
  /\ last.args.order.effect = "CLOSE_SHORT"
  /\ last.args.order.symbol \in ShortSymbols(last.pre)
  /\ RLe(last.args.order.quantity, last.pre.short[last.args.order.symbol].quantity)
  /\ Rejected(last.ret, "INSUFFICIENT_CASH")

\* C17: a STOP or STOP_LIMIT order with positive quantity whose required price fields are
\* present and positive is accepted only if stopPrice is strictly above the snapshot
\* price (OPEN_LONG, CLOSE_SHORT) or strictly below it (CLOSE_LONG, OPEN_SHORT); with
\* stopPrice equal to the snapshot price it is rejected with InvalidStopDirection.
C17_StopDirection ==
  (/\ Validated
   /\ last.args.order.type \in StopTypes
   /\ RLt(Zero, last.args.order.quantity)
   /\ RLt(Zero, last.args.order.stopPrice)
   /\ last.args.order.type = "STOP_LIMIT" => RLt(Zero, last.args.order.price)) =>
    LET order == last.args.order
        current == MapGet(last.args.snapshot.price, order.symbol)
    IN /\ last.ret.valid =>
            IF order.effect \in {"OPEN_LONG", "CLOSE_SHORT"}
            THEN RLt(current, order.stopPrice)
            ELSE RLt(order.stopPrice, current)
       /\ order.stopPrice = current => Rejected(last.ret, "INVALID_STOP_DIRECTION")

C17_Witness ==
  /\ Validated
  /\ last.args.order.type = "STOP_LIMIT"
  /\ last.args.order.effect = "CLOSE_SHORT"
  /\ last.args.order.stopPrice = MapGet(last.args.snapshot.price, last.args.order.symbol)
  /\ Rejected(last.ret, "INVALID_STOP_DIRECTION")

\* C18: the verdict on a STOP or STOP_LIMIT order is the verdict the same order and
\* snapshot get against a Position with no cash and no holdings.
C18_StopIgnoresPosition ==
  (Validated /\ last.args.order.type \in StopTypes) =>
    last.ret = validateOrder(last.args.order, createTestPosition(Zero), last.args.snapshot).ret

C18_Witness ==
  /\ Validated
  /\ last.args.order.type = "STOP"
  /\ last.args.order.effect = "OPEN_LONG"
  /\ last.args.order.quantity = R(3)
  /\ last.ret = Valid
  /\ last.pre.long # EmptyMap
  /\ RLt(last.pre.cash, RMul(last.args.order.stopPrice, last.args.order.quantity))

\* the symbol whose holdings an action works from
ActionSymbol ==
  IF last.op = "handleAirdrop" THEN SymbolOf(last.args.holderSymbol) ELSE last.args.symbol

FixedAmountAirdrop == last.op = "handleAirdrop" /\ NoHolder(last.args.holderSymbol)

\* C19: a corporate or chain action called for a symbol with neither a long nor a short
\* position does not throw and leaves the Position exactly as it was, a fixed-amount
\* airdrop excepted.
C19_NoPositionNoOp ==
  (/\ last.op \in ActionOps
   /\ ~FixedAmountAirdrop
   /\ ActionSymbol \notin LongSymbols(last.pre) \cup ShortSymbols(last.pre))
    => (~last.threw /\ pos = last.pre)

RatioOps == {"handleSplit", "handleMerger", "handleHardFork", "handleTokenSwap"}

\* the call just made had a ratio, rate or amount out of range, an airdrop's amounts
\* left aside
InvalidRatioOrAmount ==
  \/ last.op \in RatioOps /\ RLe(last.args.ratio, Zero)
  \/ /\ last.op = "handleCashDividend"
     /\ \/ RLt(last.args.taxRate, Zero)
        \/ RLt(One, last.args.taxRate)
        \/ RLt(last.args.amountPerShare, Zero)
  \/ last.op = "handleStakingReward" /\ RLt(last.args.rewardPerToken, Zero)

\* the call just made had a parameter C20 names as invalid: an airdrop amount is the
\* per-token amount or the fixed amount
InvalidParameter ==
  \/ InvalidRatioOrAmount
  \/ /\ last.op = "handleAirdrop"
     /\ \/ RLt(last.args.amountPerToken, Zero)
        \/ RLt(last.args.fixedAmount, Zero)

\* C20 as stated: an action called with a split, merger, fork or swap ratio <= 0, a
\* dividend tax rate outside [0, 1], or a negative dividend, airdrop or staking amount
\* throws, and the Position is then exactly as it was before the call.
C20_InvalidParameterThrows ==
  InvalidParameter => (last.threw /\ pos = last.pre)

\* C20: the same of every ratio, rate and amount but the fixed amount of an airdrop, which
\* makes the call throw when it is negative and no holder symbol is given; given along
\* with a holder symbol it is not read, and the call throws or not as it would without it.
C20_ReadParameterThrows ==
  /\ (\/ InvalidRatioOrAmount
      \/ /\ last.op = "handleAirdrop"
         /\ \/ RLt(last.args.amountPerToken, Zero)
            \/ NoHolder(last.args.holderSymbol) /\ RLt(last.args.fixedAmount, Zero))
       => (last.threw /\ pos = last.pre)
  /\ (/\ last.op = "handleAirdrop"
      /\ ~NoHolder(last.args.holderSymbol)
      /\ RLt(last.args.fixedAmount, Zero)
      /\ RLe(Zero, last.args.amountPerToken))
       => /\ ~last.threw
          /\ pos = handleAirdrop(last.pre, last.args.holderSymbol, last.args.airdropSymbol,
                                 last.args.amountPerToken, Zero, steps, steps - 1).pos

C20_Witness ==
  /\ last.op = "handleAirdrop"
  /\ last.args.holderSymbol = Holder("A")
  /\ last.args.fixedAmount = R(-1)
  /\ last.args.amountPerToken = One
  /\ ~last.threw
  /\ "A" \in LongSymbols(last.pre)
  /\ pos # last.pre

\* C21 as stated: handleAirdrop throws unless it is given a holder symbol with a positive
\* per-token amount, or a positive fixed amount.
C21_AirdropRejectedUnless ==
  (last.op = "handleAirdrop") =>
    (~(\/ ~NoHolder(last.args.holderSymbol) /\ RLt(Zero, last.args.amountPerToken)
       \/ RLt(Zero, last.args.fixedAmount))
       => last.threw)

\* C21 amended: handleAirdrop throws exactly when it is given no holder symbol and no
\* positive fixed amount, or a negative per-token amount.
C21_AirdropThrowsExactlyWhen ==
  (last.op = "handleAirdrop") =>
    (last.threw <=>
       \/ NoHolder(last.args.holderSymbol) /\ RLe(last.args.fixedAmount, Zero)
       \/ RLt(last.args.amountPerToken, Zero))

C21_Witness ==
  /\ last.op = "handleAirdrop"
  /\ last.args.holderSymbol = Holder("A")
  /\ last.args.amountPerToken = Zero
  /\ last.args.fixedAmount = Zero
  /\ "A" \in LongSymbols(last.pre)
  /\ ~last.threw
  /\ pos = last.pre

\* the symbol an action gives its new lot to
TargetSymbol == IF last.op = "handleAirdrop" THEN last.args.airdropSymbol ELSE last.args.newSymbol

TargetOps == {"handleSpinoff", "handleMerger", "handleHardFork", "handleAirdrop",
              "handleTokenSwap"}

\* the call just made had a long (short) lot to give
GivesLong ==
  IF last.op = "handleAirdrop"
  THEN \/ NoHolder(last.args.holderSymbol)
       \/ /\ SymbolOf(last.args.holderSymbol) \in LongSymbols(last.pre)
          /\ RLt(Zero, RMul(last.pre.long[SymbolOf(last.args.holderSymbol)].quantity,
                            last.args.amountPerToken))
  ELSE last.args.symbol \in LongSymbols(last.pre)

GivesShort == last.op # "handleAirdrop" /\ last.args.symbol \in ShortSymbols(last.pre)

AppendedLong(old, new) ==
  LET n == Len(old.lots)
  IN /\ Len(new.lots) = n + 1
     /\ SubSeq(new.lots, 1, n) = old.lots
     /\ new.quantity = RAdd(old.quantity, new.lots[n + 1].quantity)
     /\ new.totalCost = RAdd(old.totalCost, new.lots[n + 1].totalCost)

AppendedShort(old, new) ==
  LET n == Len(old.lots)
  IN /\ Len(new.lots) = n + 1
     /\ SubSeq(new.lots, 1, n) = old.lots
     /\ new.quantity = RAdd(old.quantity, new.lots[n + 1].quantity)
     /\ new.totalProceeds = RAdd(old.totalProceeds, new.lots[n + 1].totalProceeds)

\* C22: when a spinoff, merger, hard fork, airdrop or token swap gives its lot to a symbol
\* that already has a position on that side, the position afterwards has its former lots
\* unchanged followed by one new lot, and its quantity and total cost (proceeds) are the
\* former ones plus the new lot's.
C22_AppendedToTarget ==
  (last.op \in TargetOps /\ ~last.threw) =>
    /\ (GivesLong /\ TargetSymbol \in LongSymbols(last.pre)) =>
         /\ TargetSymbol \in LongSymbols(pos)
         /\ AppendedLong(last.pre.long[TargetSymbol], pos.long[TargetSymbol])
    /\ (GivesShort /\ TargetSymbol \in ShortSymbols(last.pre)) =>
         /\ TargetSymbol \in ShortSymbols(pos)
         /\ AppendedShort(last.pre.short[TargetSymbol], pos.short[TargetSymbol])

C22_Witness ==
  /\ last.op = "handleHardFork"
  /\ ~last.threw
  /\ GivesLong
  /\ TargetSymbol \in LongSymbols(last.pre)
  /\ last.pre.long[TargetSymbol].totalCost # Zero
  /\ Len(pos.long[TargetSymbol].lots) = 2

ReplaceOps == {"handleMerger", "handleTokenSwap"}

\* cash paid per old share by the replacement just made (a token swap pays none)
CashPerShare == IF last.op = "handleMerger" THEN last.args.cashComponent ELSE Zero

LastLot(position) == position.lots[Len(position.lots)]

ReplacedLong ==
  LET old == last.pre.long[last.args.symbol]
      new == pos.long[last.args.newSymbol]
      quantity == RMul(old.quantity, last.args.ratio)
      basis == RSub(old.totalCost, RMul(old.quantity, CashPerShare))
  IN /\ last.args.symbol \notin LongSymbols(pos)
     /\ last.args.newSymbol \in LongSymbols(pos)
     /\ LastLot(new).quantity = quantity
     /\ LastLot(new).totalCost = basis
     /\ last.args.newSymbol \notin LongSymbols(last.pre) =>
          /\ Len(new.lots) = 1
          /\ new.quantity = quantity
          /\ new.totalCost = basis

ReplacedShort ==
  LET old == last.pre.short[last.args.symbol]
      new == pos.short[last.args.newSymbol]
      quantity == RMul(old.quantity, last.args.ratio)
      basis == RSub(old.totalProceeds, RMul(old.quantity, CashPerShare))
  IN /\ last.args.symbol \notin ShortSymbols(pos)
     /\ last.args.newSymbol \in ShortSymbols(pos)
     /\ LastLot(new).quantity = quantity
     /\ LastLot(new).totalProceeds = basis
     /\ last.args.newSymbol \notin ShortSymbols(last.pre) =>
          /\ Len(new.lots) = 1
          /\ new.quantity = quantity
          /\ new.totalProceeds = basis

\* C23: a merger replaces a held position by one in the new symbol whose quantity is the
\* old quantity times the ratio and whose basis is the old total cost (proceeds) less the
\* old quantity times the cash component, deletes the old symbol's position, and moves
\* cash by plus that cash for a long and minus it for a short; a token swap does the same
\* with no cash component: the basis is carried over whole and cash stays.
C23_Replaced ==
  (last.op \in ReplaceOps /\ ~last.threw) =>
    LET held(side) == last.args.symbol \in DOMAIN side
        received == IF held(last.pre.long)
                    THEN RMul(last.pre.long[last.args.symbol].quantity, CashPerShare) ELSE Zero
        owed == IF held(last.pre.short)
                THEN RMul(last.pre.short[last.args.symbol].quantity, CashPerShare) ELSE Zero
    IN /\ held(last.pre.long) => ReplacedLong
       /\ held(last.pre.short) => ReplacedShort
       /\ last.op = "handleMerger" =>
            pos.cash = RAdd(last.pre.cash, RSub(RAdd(Zero, received), owed))
       /\ last.op = "handleTokenSwap" => pos.cash = last.pre.cash

C23_Witness ==
  /\ last.op = "handleMerger"
  /\ ~last.threw
  /\ last.args.cashComponent = One
  /\ last.args.symbol \in LongSymbols(last.pre)
  /\ last.args.newSymbol \notin LongSymbols(last.pre)
  /\ pos.cash # last.pre.cash
  /\ pos.long[last.args.newSymbol].totalCost # last.pre.long[last.args.symbol].totalCost

\* what a dividend pays on one long lot, net of tax, and what one short lot owes
NetDividend(lot) ==
  RMul(RMul(lot.quantity, last.args.amountPerShare), RSub(One, last.args.taxRate))

GrossDividend(lot) == RMul(lot.quantity, last.args.amountPerShare)

DividendPaid ==
  IF last.args.symbol \in LongSymbols(last.pre)
  THEN LET lots == last.pre.long[last.args.symbol].lots
       IN SumSeq([i \in DOMAIN lots |-> NetDividend(lots[i])])
  ELSE Zero

DividendOwed ==
  IF last.args.symbol \in ShortSymbols(last.pre)
  THEN LET lots == last.pre.short[last.args.symbol].lots
       IN SumSeq([i \in DOMAIN lots |-> GrossDividend(lots[i])])
  ELSE Zero

\* C24: a cash dividend leaves every quantity as it was; each long lot's totalCost goes
\* down by lot quantity x amountPerShare x (1 - taxRate) and cash goes up by the total of
\* those amounts; each short lot's totalProceeds goes down by lot quantity x amountPerShare
\* and cash goes down by that total; the value returned is the net change of cash.
C24_CashDividend ==
  (last.op = "handleCashDividend" /\ ~last.threw) =>
    LET symbol == last.args.symbol
    IN /\ symbol \in LongSymbols(last.pre) =>
            LET old == last.pre.long[symbol]
                new == pos.long[symbol]
            IN /\ new.quantity = old.quantity
               /\ DOMAIN new.lots = DOMAIN old.lots
               /\ \A i \in DOMAIN old.lots :
                    /\ new.lots[i].quantity = old.lots[i].quantity
                    /\ new.lots[i].totalCost = RSub(old.lots[i].totalCost, NetDividend(old.lots[i]))
       /\ symbol \in ShortSymbols(last.pre) =>
            LET old == last.pre.short[symbol]
                new == pos.short[symbol]
            IN /\ new.quantity = old.quantity
               /\ DOMAIN new.lots = DOMAIN old.lots
               /\ \A i \in DOMAIN old.lots :
                    /\ new.lots[i].quantity = old.lots[i].quantity
                    /\ new.lots[i].totalProceeds =
                         RSub(old.lots[i].totalProceeds, GrossDividend(old.lots[i]))
       /\ last.ret = RSub(RAdd(Zero, DividendPaid), DividendOwed)
       /\ pos.cash = RAdd(last.pre.cash, last.ret)

C24_Witness ==
  /\ last.op = "handleCashDividend"
  /\ ~last.threw
  /\ last.args.taxRate = Q(1, 2)
  /\ last.args.symbol \in LongSymbols(last.pre)
  /\ last.args.symbol \in ShortSymbols(last.pre)
  /\ last.ret # Zero

DistributionOps == {"handleSpinoff", "handleHardFork"}

\* C25: a spinoff or hard fork gives the new symbol a lot of the old quantity times the
\* ratio with a basis of zero, and leaves the original symbol's position and cash as
\* they were.
C25_FreeLotOriginalKept ==
  (last.op \in DistributionOps /\ ~last.threw) =>
    LET symbol == last.args.symbol
        newSymbol == last.args.newSymbol
    IN /\ symbol \in LongSymbols(last.pre) =>
            /\ newSymbol \in LongSymbols(pos)
            /\ LastLot(pos.long[newSymbol]).quantity =
                 RMul(last.pre.long[symbol].quantity, last.args.ratio)
            /\ LastLot(pos.long[newSymbol]).totalCost = Zero
            /\ symbol \in LongSymbols(pos)
            /\ pos.long[symbol] = last.pre.long[symbol]
       /\ symbol \in ShortSymbols(last.pre) =>
            /\ newSymbol \in ShortSymbols(pos)
            /\ LastLot(pos.short[newSymbol]).quantity =
                 RMul(last.pre.short[symbol].quantity, last.args.ratio)
            /\ LastLot(pos.short[newSymbol]).totalProceeds = Zero
            /\ symbol \in ShortSymbols(pos)
            /\ pos.short[symbol] = last.pre.short[symbol]
       /\ pos.cash = last.pre.cash

C25_Witness ==
  /\ last.op = "handleHardFork"
  /\ ~last.threw
  /\ last.args.symbol \in LongSymbols(last.pre)
  /\ last.args.symbol \in ShortSymbols(last.pre)
  /\ last.args.newSymbol \notin LongSymbols(last.pre)
  /\ pos.long[last.args.newSymbol].quantity # last.pre.long[last.args.symbol].quantity

SplitQuantities(old, new) ==
  /\ new.quantity = RMul(old.quantity, last.args.ratio)
  /\ DOMAIN new.lots = DOMAIN old.lots
  /\ \A i \in DOMAIN old.lots : new.lots[i].quantity = RMul(old.lots[i].quantity, last.args.ratio)

\* C26: a split multiplies the quantity of the position and of each of its lots by the
\* ratio, leaves totalCost (totalProceeds) of the position and of each lot as it was,
\* scales the position's average cost (proceeds) by 1/ratio, from total / quantity to
\* total / (quantity x ratio), and leaves cash as it was.
C26_SplitNeutral ==
  (last.op = "handleSplit" /\ ~last.threw) =>
    LET symbol == last.args.symbol
    IN /\ symbol \in LongSymbols(last.pre) =>
            LET old == last.pre.long[symbol]
                new == pos.long[symbol]
            IN /\ SplitQuantities(old, new)
               /\ new.totalCost = old.totalCost
               /\ \A i \in DOMAIN old.lots : new.lots[i].totalCost = old.lots[i].totalCost
               /\ old.averageCost = RDiv(old.totalCost, old.quantity)
               /\ new.averageCost = RDiv(old.totalCost, RMul(old.quantity, last.args.ratio))
       /\ symbol \in ShortSymbols(last.pre) =>
            LET old == last.pre.short[symbol]
                new == pos.short[symbol]
            IN /\ SplitQuantities(old, new)
               /\ new.totalProceeds = old.totalProceeds
               /\ \A i \in DOMAIN old.lots : new.lots[i].totalProceeds = old.lots[i].totalProceeds
               /\ old.averageProceeds = RDiv(old.totalProceeds, old.quantity)
               /\ new.averageProceeds =
                    RDiv(old.totalProceeds, RMul(old.quantity, last.args.ratio))
       /\ pos.cash = last.pre.cash

\* C27: a staking reward on a held long position returns the old quantity times
\* rewardPerToken, raises the position's quantity by exactly that through one new lot of
\* zero cost, and leaves totalCost and cash as they were; for a symbol not held long it
\* returns 0.
C27_StakingReward ==
  (last.op = "handleStakingReward" /\ ~last.threw) =>
    LET symbol == last.args.symbol
    IN IF symbol \in LongSymbols(last.pre)
       THEN LET old == last.pre.long[symbol]
                new == pos.long[symbol]
                reward == RMul(old.quantity, last.args.rewardPerToken)
            IN /\ last.ret = reward
               /\ new.quantity = RAdd(old.quantity, reward)
               /\ Len(new.lots) = Len(old.lots) + 1
               /\ SubSeq(new.lots, 1, Len(old.lots)) = old.lots
               /\ LastLot(new).quantity = reward
               /\ LastLot(new).totalCost = Zero
               /\ new.totalCost = old.totalCost
               /\ pos.cash = last.pre.cash
       ELSE last.ret = Zero

C27_Witness ==
  /\ last.op = "handleStakingReward"
  /\ ~last.threw
  /\ last.args.symbol \in LongSymbols(last.pre)
  /\ last.ret # Zero
  /\ pos.long[last.args.symbol].totalCost # Zero
  /\ Len(pos.long[last.args.symbol].lots) = 2

RAbs(x) == IF RLt(x, Zero) THEN RNeg(x) ELSE x

\* the call just made closed part, not all, of a position of exactly two lots
TwoLotPartialClose ==
  /\ last.op \in CloseOps
  /\ ~last.threw
  /\ LET before == SideLots(last.pre, last.op, last.args.symbol)
     IN /\ Len(before) = 2
        /\ RLt(Zero, last.args.quantity)
        /\ RLt(last.args.quantity, RAdd(before[1].quantity, before[2].quantity))

\* what that close returns when it is made with the given strategy
RealisedUnder(strat) ==
  LET a == last.args
  IN IF last.op = "closeLong"
     THEN closeLong(last.pre, a.symbol, a.price, a.quantity, a.commission, strat, steps).ret
     ELSE closeShort(last.pre, a.symbol, a.price, a.quantity, a.commission, strat, steps).ret

\* the lot is in the position after the call exactly as it was before
Untouched(lot) ==
  LET after == SideLots(pos, last.op, last.args.symbol)
  IN \E i \in DOMAIN after : after[i] = lot

UnitBasis(lot) == RDiv(BasisOf(last.op, lot), lot.quantity)

RoundTrip ==
  /\ last.op = "openLong"
  /\ last'.op = "closeLong"
  /\ ~last'.threw
  /\ last'.args.symbol = last.args.symbol
  /\ last'.args.quantity = last.args.quantity
  /\ last'.args.price = last.args.price
  /\ last.args.commission = Zero
  /\ last'.args.commission = Zero

RECURSIVE RealisedOver(_, _)
RealisedOver(map, symbols) ==
  IF symbols = {} THEN Zero
  ELSE LET s == CHOOSE x \in symbols : TRUE
       IN RAdd(map[s].realisedPnL, RealisedOver(map, symbols \ {s}))

\* C30: after any sequence of operations the Position's realisedPnL is the sum of the
\* realisedPnL of all its long and short positions.
C30_RealisedIsSum ==
  RealisedOf(pos) = RAdd(RealisedOver(pos.long, LongSymbols(pos)),
                        RealisedOver(pos.short, ShortSymbols(pos)))


\* the call just made was a close that returned, on that side of that symbol
ClosedLong(s) == last.op = "closeLong" /\ ~last.threw /\ last.args.symbol = s
ClosedShort(s) == last.op = "closeShort" /\ ~last.threw /\ last.args.symbol = s

\* every position that is there before and after the call has the realisedPnL it had,
\* plus what the call returned when the call closed part of it
RealisedCumulative ==
  /\ \A s \in LongSymbols(last.pre) \cap LongSymbols(pos) :
       pos.long[s].realisedPnL =
         IF ClosedLong(s) THEN RAdd(last.pre.long[s].realisedPnL, last.ret)
         ELSE last.pre.long[s].realisedPnL
  /\ \A s \in ShortSymbols(last.pre) \cap ShortSymbols(pos) :
       pos.short[s].realisedPnL =
         IF ClosedShort(s) THEN RAdd(last.pre.short[s].realisedPnL, last.ret)
         ELSE last.pre.short[s].realisedPnL

\* C31 as stated: a symbol position's realisedPnL is changed only by closes, and each
\* close only increases its magnitude.
C31_RealisedGrows ==
  /\ RealisedCumulative
  /\ \A s \in LongSymbols(last.pre) \cap LongSymbols(pos) :
       ClosedLong(s) =>
         RLe(RAbs(last.pre.long[s].realisedPnL), RAbs(pos.long[s].realisedPnL))
  /\ \A s \in ShortSymbols(last.pre) \cap ShortSymbols(pos) :
       ClosedShort(s) =>
         RLe(RAbs(last.pre.short[s].realisedPnL), RAbs(pos.short[s].realisedPnL))

\* C31: a symbol position's realisedPnL is changed only by closes (never by opens or
\* corporate actions), and each close adds to it the profit or loss that close realised,
\* whatever its sign.
C31_RealisedCumulative == RealisedCumulative

C31_Witness ==
  /\ ClosedLong("A")
  /\ "A" \in LongSymbols(pos)
  /\ last.pre.long["A"].realisedPnL # Zero
  /\ last.ret # Zero
  /\ RLt(RAbs(pos.long["A"].realisedPnL), RAbs(last.pre.long["A"].realisedPnL))

RECURSIVE CostOver(_, _)
CostOver(map, symbols) ==
  IF symbols = {} THEN Zero
  ELSE LET s == CHOOSE x \in symbols : TRUE
       IN RAdd(map[s].totalCost, CostOver(map, symbols \ {s}))

RECURSIVE ProceedsOver(_, _)
ProceedsOver(map, symbols) ==
  IF symbols = {} THEN Zero
  ELSE LET s == CHOOSE x \in symbols : TRUE
       IN RAdd(map[s].totalProceeds, ProceedsOver(map, symbols \ {s}))

\* cash + sum of long totalCost - sum of short totalProceeds - realisedPnL
NetBasis(p) ==
  RSub(RSub(RAdd(p.cash, CostOver(p.long, LongSymbols(p))),
            ProceedsOver(p.short, ShortSymbols(p))),
       RealisedOf(p))

\* C32: across any sequence of trades and corporate or chain actions, cash + the long
\* positions' totalCost - the short positions' totalProceeds - realisedPnL keeps the
\* value it had initially.
C32_NetBasisKept ==
  last.op \in TradeOps \cup ActionOps => NetBasis(pos) = NetBasis(last.pre)

\* the call just made applied the fill of an accepted order
Filled == last.op = "applyFill" /\ "order" \in DOMAIN last.args

CloseEffects == {"CLOSE_LONG", "CLOSE_SHORT"}

\* quantity the Position held, before the fill, on the side the fill closes
HeldBefore ==
  LET fill == last.args.fill
  IN IF fill.effect = "CLOSE_LONG"
     THEN IF fill.symbol \in LongSymbols(last.pre)
          THEN last.pre.long[fill.symbol].quantity ELSE Zero
     ELSE IF fill.symbol \in ShortSymbols(last.pre)
          THEN last.pre.short[fill.symbol].quantity ELSE Zero

FillSafe ==
  /\ ~last.threw
  /\ last.args.fill.effect \in CloseEffects => RLe(last.args.fill.quantity, HeldBefore)

\* the order was accepted against the very Position the fill was applied to
FreshlyAccepted == last.args.at = last.pre

\* C33 as stated: when every fill belongs to an order the validator accepted against
\* some earlier state of the Position, no fill throws and no close takes more than is
\* held when it is applied.
C33_AcceptedFillsSafe == Filled => FillSafe

\* C33: when a fill belongs to a MARKET or LIMIT order the validator accepted against
\* the state the Position is in when the fill is applied, the fill does not throw and
\* a close takes no more than is held.
C33_FreshFillsSafe ==
  (Filled /\ FreshlyAccepted /\ last.args.order.type \in {"MARKET", "LIMIT"}) => FillSafe

C33_Witness ==
  /\ Filled
  /\ FreshlyAccepted
  /\ last.args.order.type = "MARKET"
  /\ last.args.fill.effect = "CLOSE_LONG"
  /\ last.args.fill.quantity = HeldBefore
  /\ ~last.threw
  /\ accepted # {}

\* the sum of two finite numbers as a real number, without the rounding to a double
ExactAdd(x, y) ==
  IF IsZero(x) THEN y
  ELSE IF IsZero(y) THEN x
  ELSE LET lo == Min(x.e, y.e)
           a == BShl(x.m, x.e - lo)
           b == BShl(y.m, y.e - lo)
           c == BCmp(a, b)
       IN IF x.s = y.s THEN Canon(x.s, BAdd(a, b), lo)
          ELSE IF c = 0 THEN Zero
          ELSE IF c > 0 THEN Canon(x.s, BSub(a, b), lo)
          ELSE Canon(y.s, BSub(b, a), lo)

RECURSIVE ExactSum(_)
ExactSum(s) == IF s = <<>> THEN Zero ELSE ExactAdd(ExactSum(Tail(s)), Head(s))

\* the lot quantities of the position a fill closes, none when the position is absent
LotQuantities(p, fill) ==
  IF fill.effect = "CLOSE_LONG"
  THEN IF fill.symbol \in LongSymbols(p)
       THEN QuantitiesOf(p.long[fill.symbol].lots) ELSE <<>>
  ELSE IF fill.symbol \in ShortSymbols(p)
       THEN QuantitiesOf(p.short[fill.symbol].lots) ELSE <<>>

\* the lots held before less quantity are the lots held after: in doubles, whichever
\* way the difference is taken, or as real numbers
LoweredBy(before, after, quantity) ==
  \/ SumSeq(after) = RSub(SumSeq(before), quantity)
  \/ RSub(SumSeq(before), SumSeq(after)) = quantity
  \/ RAdd(SumSeq(after), quantity) = SumSeq(before)
  \/ ExactSum(after) = ExactAdd(ExactSum(before), RNeg(quantity))

\* C34: when validateOrder accepts a MARKET or LIMIT CLOSE_LONG or CLOSE_SHORT order,
\* a fill of the same symbol, effect and quantity applied to the same unchanged
\* Position does not throw and lowers the summed lot quantity of that position by
\* exactly the order quantity.
C34_AcceptedCloseFills ==
  (/\ Filled
   /\ FreshlyAccepted
   /\ last.args.order.type \in {"MARKET", "LIMIT"}
   /\ last.args.order.effect \in CloseEffects) =>
    /\ ~last.threw
    /\ LoweredBy(LotQuantities(last.pre, last.args.fill),
                 LotQuantities(pos, last.args.fill), last.args.order.quantity)

\* summed lot quantity on the side a trade call works on
SideQuantity(p) == SumSeq(QuantitiesOf(SideLots(p, last.op, last.args.symbol)))

Removed == RSub(SideQuantity(last.pre), SideQuantity(pos))

AcceptedBuyFilled ==
  /\ Filled
  /\ FreshlyAccepted
  /\ last.args.order.type \in {"MARKET", "LIMIT"}
  /\ last.args.order.effect \in {"OPEN_LONG", "CLOSE_SHORT"}

\* C36 as stated: an accepted OPEN_LONG or CLOSE_SHORT order filled at its reference
\* price and quantity on the same Position, with any commission >= 0, leaves cash not
\* negative.
C36_AcceptedBuyFunded == AcceptedBuyFilled => RLe(Zero, pos.cash)

\* C36: an accepted MARKET or LIMIT OPEN_LONG or CLOSE_SHORT order filled at its
\* reference price and quantity on the same Position: cash covered price x quantity
\* before the fill and the fill takes price x quantity + commission from it, so cash is
\* not negative after the fill when the commission is zero, and a fill whose price x
\* quantity + commission exceeds the cash takes it below zero.
C36_AcceptedBuyFundedBeforeCommission ==
  AcceptedBuyFilled =>
    LET fill == last.args.fill
        gross == RMul(fill.price, fill.quantity)
    IN /\ RLe(gross, last.pre.cash)
       /\ pos.cash = RSub(last.pre.cash, RAdd(gross, fill.commission))
       /\ fill.commission = Zero => RLe(Zero, pos.cash)
       /\ RLt(last.pre.cash, RAdd(gross, fill.commission)) => RLt(pos.cash, Zero)

C36_Witness ==
  /\ AcceptedBuyFilled
  /\ last.args.order.effect = "OPEN_LONG"
  /\ last.args.fill.commission = Zero
  /\ last.pre.cash = RMul(last.args.fill.price, last.args.fill.quantity)
  /\ pos.cash = Zero

\* C37: after any sequence of operations with valid parameters, no position's lot list
\* holds a lot of quantity 0 or less.
C37_NoEmptyLot ==
  /\ \A s \in LongSymbols(pos) :
       \A i \in DOMAIN pos.long[s].lots : RLt(Zero, pos.long[s].lots[i].quantity)
  /\ \A s \in ShortSymbols(pos) :
       \A i \in DOMAIN pos.short[s].lots : RLt(Zero, pos.short[s].lots[i].quantity)

\* the two maps hold the same positions under every symbol but the given one
SameButFor(before, after, symbol) ==
  \A s \in (DOMAIN before \cup DOMAIN after) \ {symbol} :
    /\ s \in DOMAIN before
    /\ s \in DOMAIN after
    /\ after[s] = before[s]

\* C38: openLong, closeLong, openShort and closeShort on a symbol leave every position
\* of every other symbol, and the opposite-side position of the same symbol, exactly as
\* it was: lots, quantity, basis and realisedPnL.
C38_OtherPositionsKept ==
  (last.op \in TradeOps) =>
    IF last.op \in {"openLong", "closeLong"}
    THEN SameButFor(last.pre.long, pos.long, last.args.symbol) /\ pos.short = last.pre.short
    ELSE SameButFor(last.pre.short, pos.short, last.args.symbol) /\ pos.long = last.pre.long

C38_Witness ==
  /\ last.op = "closeLong"
  /\ ~last.threw
  /\ LongSymbols(last.pre) = Symbols
  /\ last.args.symbol \notin LongSymbols(pos)

\* the close just made asked for exactly the quantity the position held
FullClose ==
  /\ last.op \in CloseOps
  /\ ~last.threw
  /\ last.args.quantity = SideQuantity(last.pre)

\* the whole outcome of that close when it is made with the given strategy
CloseUnder(strat) ==
  LET a == last.args
  IN IF last.op = "closeLong"
     THEN closeLong(last.pre, a.symbol, a.price, a.quantity, a.commission, strat, steps)
     ELSE closeShort(last.pre, a.symbol, a.price, a.quantity, a.commission, strat, steps)

\* C39: closing the entire held quantity of a position gives the same realised P&L, the
\* same cash and the same resulting Position under FIFO and under LIFO, however many
\* lots the position has.
C39_FullCloseSame ==
  FullClose =>
    /\ CloseUnder("FIFO").ret = CloseUnder("LIFO").ret
    /\ CloseUnder("FIFO").pos = CloseUnder("LIFO").pos
    /\ pos = CloseUnder("FIFO").pos
    /\ last.ret = CloseUnder("LIFO").ret
    /\ last.args.symbol \notin DOMAIN (IF last.op = "closeLong" THEN pos.long ELSE pos.short)

\* prices a snapshot may give the symbol that was not traded
OtherPrices == {Undefined, Zero, One, R(5)}

\* the snapshots that price the traded symbol at the trade's price
SnapshotsAt(symbol, price) ==
  {[price |-> MapSet(EmptyMap, symbol, price)]} \cup
  {[price |-> MapSet(MapSet(EmptyMap, other, otherPrice), symbol, price)] :
     other \in Symbols \ {symbol}, otherPrice \in OtherPrices \ {Undefined}}

\* the call just made on a Position was an open, or a close of at most the held
\* quantity, at zero commission, and it returned
FreeTrade ==
  /\ account = "Position"
  /\ last.op \in TradeOps
  /\ ~last.threw
  /\ last.args.commission = Zero
  /\ last.op \in CloseOps => RLe(last.args.quantity, SideQuantity(last.pre))

\* the keys of a map after a trade, given their order before it: a deleted key is gone,
\* a new key comes last
KeysAfter(keys, map) ==
  LET kept == SelectSeq(keys, LAMBDA k : k \in DOMAIN map)
      new == DOMAIN map \ {keys[i] : i \in DOMAIN keys}
  IN IF new = {} THEN kept ELSE Append(kept, CHOOSE k \in new : TRUE)

\* C40: an open, or a close of at most the held quantity, executed with zero commission
\* at price p leaves appraisePosition unchanged for any snapshot that prices that symbol
\* at p.
C40_AppraisalKept ==
  FreeTrade =>
    \A snapshot \in SnapshotsAt(last.args.symbol, last.args.price),
       longKeys \in KeyOrders(last.pre.long), shortKeys \in KeyOrders(last.pre.short) :
      appraisePosition(pos, snapshot, KeysAfter(longKeys, pos.long),
                       KeysAfter(shortKeys, pos.short))
        = appraisePosition(last.pre, snapshot, longKeys, shortKeys)

====
